---- MODULE Spec2Model ----
(***************************************************************************)
(* Model of package database of turahe/pkg: the connection handle          *)
(* (Database, NewContext, Close) and the two Cloud SQL connectors with     *)
(* their process-wide sync.Once guards.  Goroutines interleave at every    *)
(* statement that reads or writes process-wide state.                      *)
(***************************************************************************)
EXTENDS Integers, Sequences, FiniteSets, TLC

\* ------------------------------------------------------------------ bounds
MaxCalls == 2        \* handle-producing calls (NewContext / literals) in a run
MaxCloses == 3       \* Close() calls in a run
MaxCleanups == 2     \* cleanup closures of a directly constructed handle

Goroutines == {"g1", "g2"}
PG == "cloudsql-postgres"
MY == "cloudsql-mysql"
Managed == {PG, MY}
Drivers == {PG, MY, "sqlite", "oracle"}
Instances == {"", "proj:region:inst"}

VARIABLES
    postgresDriverOnce,   \* sync.Once: "new" | "running" | "done"
    mysqlDriverOnce,      \* sync.Once
    mysqlCleanupOnce,     \* sync.Once
    mysqlDriverCleanup,   \* 0 = nil, -1 = closure releasing nothing, d > 0 = closure closing dialer d
    registry,             \* per managed driver name: registration attempts, success, dialer behind it
    dialers,              \* every cloudsqlconn dialer created: driver, who called Close on it
    conns,                \* every *sql.DB opened: driver, dialer it dials through, closed
    handles,              \* every *Database constructed
    ncalls,               \* handle-producing calls started
    pc,                   \* per goroutine: the statement it is at
    loc,                  \* per goroutine: locals of the running call
    ret,                  \* per goroutine: values just returned to it
    opt,                  \* an Options value and what applyDefaults made of it
    trace,                \* a fintechLogger, one Trace call on it and what it logged
    redact,               \* a SQL text and what redactSQL made of it
    compat                \* the legacy package-level default handles and the calls on them

vars == <<postgresDriverOnce, mysqlDriverOnce, mysqlCleanupOnce, mysqlDriverCleanup,
          registry, dialers, conns, handles, ncalls, pc, loc, ret, opt, trace, redact,
          compat>>

process == <<postgresDriverOnce, mysqlDriverOnce, mysqlCleanupOnce, mysqlDriverCleanup,
             registry, dialers, conns, handles>>

\* what the connectors and Close never touch
pure == <<opt, trace, redact, compat>>

\* ------------------------------------------------------------- sync.Once
\* Do(f) returns at once, without running f, only when f has completed.
OnceFastMutant(o) == o \in {"running", "done"}
OnceFast(o) == o = "done"

\* Do(f) runs f in the one caller that finds the guard untouched; a caller that
\* finds f running blocks (neither OnceFast nor OnceRun holds).
OnceRunMutant(o) == o \in {"new", "done"}
OnceRun(o) == o = "new"

\* the guard after f has returned
OnceRetryMutant(ok) == IF ok THEN "done" ELSE "new"
OnceAfter(ok) == "done"

\* ------------------------------------------------------------- Options
Millisecond == 1
Second == 1000 * Millisecond
Minute == 60 * Second

\* gorm logger.LogLevel
Silent == 1
Error == 2
Warn == 3
Info == 4

defaultMaxOpenConns == 30
defaultMaxIdleConns == 10
defaultConnMaxLifetime == 30 * Minute
defaultConnMaxIdleTime == 10 * Minute
defaultSlowThreshold == 500 * Millisecond
defaultPingTimeout == 5 * Second
productionMaxOpenConns == 150
productionMaxIdleConns == 50

\* Options{}: the zero value
Options0 == [UseIAM |-> FALSE, UsePrivateIP |-> FALSE, LogLevel |-> 0,
             MaxOpenConns |-> 0, MaxIdleConns |-> 0, ConnMaxLife |-> 0, ConnMaxIdle |-> 0,
             SlowThreshold |-> 0, PingTimeout |-> 0]

\* (o *Options) applyDefaults()
applyDefaultsLeavesZeroMutant(o) ==
    [o EXCEPT !.MaxOpenConns = IF @ < 0 THEN defaultMaxOpenConns ELSE @,
              !.MaxIdleConns = IF @ < 0 THEN defaultMaxIdleConns ELSE @,
              !.ConnMaxLife = IF @ < 0 THEN defaultConnMaxLifetime ELSE @,
              !.ConnMaxIdle = IF @ < 0 THEN defaultConnMaxIdleTime ELSE @,
              !.SlowThreshold = IF @ < 0 THEN defaultSlowThreshold ELSE @,
              !.PingTimeout = IF @ < 0 THEN defaultPingTimeout ELSE @,
              !.LogLevel = IF @ < Silent \/ @ > Info THEN Warn ELSE @]
applyDefaultsIdleFromLifeMutant(o) ==
    [o EXCEPT !.MaxOpenConns = IF @ <= 0 THEN defaultMaxOpenConns ELSE @,
              !.MaxIdleConns = IF @ <= 0 THEN defaultMaxIdleConns ELSE @,
              !.ConnMaxLife = IF @ <= 0 THEN defaultConnMaxLifetime ELSE @,
              !.ConnMaxIdle = IF @ <= 0 THEN o.ConnMaxLife ELSE @,
              !.SlowThreshold = IF @ <= 0 THEN defaultSlowThreshold ELSE @,
              !.PingTimeout = IF @ <= 0 THEN defaultPingTimeout ELSE @,
              !.LogLevel = IF @ < Silent \/ @ > Info THEN Warn ELSE @]
applyDefaults(o) ==
    [o EXCEPT !.MaxOpenConns = IF @ <= 0 THEN defaultMaxOpenConns ELSE @,
              !.MaxIdleConns = IF @ <= 0 THEN defaultMaxIdleConns ELSE @,
              !.ConnMaxLife = IF @ <= 0 THEN defaultConnMaxLifetime ELSE @,
              !.ConnMaxIdle = IF @ <= 0 THEN defaultConnMaxIdleTime ELSE @,
              !.SlowThreshold = IF @ <= 0 THEN defaultSlowThreshold ELSE @,
              !.PingTimeout = IF @ <= 0 THEN defaultPingTimeout ELSE @,
              !.LogLevel = IF @ < Silent \/ @ > Info THEN Warn ELSE @]

\* an Option applied to *Options: WithIAM(v), ..., WithProductionPoolDefaults
ApplyOption(o, f) ==
    CASE f.fn = "WithIAM" -> [o EXCEPT !.UseIAM = f.v]
      [] f.fn = "WithPrivateIP" -> [o EXCEPT !.UsePrivateIP = f.v]
      [] f.fn = "WithLogLevel" -> [o EXCEPT !.LogLevel = f.v]
      [] f.fn = "WithMaxOpenConns" -> [o EXCEPT !.MaxOpenConns = f.v]
      [] f.fn = "WithMaxIdleConns" -> [o EXCEPT !.MaxIdleConns = f.v]
      [] f.fn = "WithConnMaxLifetime" -> [o EXCEPT !.ConnMaxLife = f.v]
      [] f.fn = "WithConnMaxIdleTime" -> [o EXCEPT !.ConnMaxIdle = f.v]
      [] f.fn = "WithProductionPoolDefaults" ->
           [o EXCEPT !.MaxOpenConns = productionMaxOpenConns,
                     !.MaxIdleConns = productionMaxIdleConns]

\* NewContext: `*o = opts; for _, fn := range override { fn(o) }`
RECURSIVE ApplyOverrides(_, _)
ApplyOverrides(o, override) ==
    IF override = <<>> THEN o
    ELSE ApplyOverrides(ApplyOption(o, Head(override)), Tail(override))

\* NewContext: the *Options the connectors and the handle get
ResolveOptions(opts, override) == applyDefaults(ApplyOverrides(opts, override))

\* the pool part of config.DatabaseConfiguration, zero value
Cfg0 == [MaxOpenConns |-> 0, MaxIdleConns |-> 0, ConnMaxLifetimeMinutes |-> 0]

\* a *sql.DB no setter has been called on
Pool0 == [maxOpen |-> 0, maxIdle |-> 0, maxLife |-> 0, maxIdleTime |-> 0]

\* configurePool(sqlDB, cfg, opts): the four setters' arguments
configurePoolOptsFirstMutant(cfg, opts) ==
    [maxOpen |-> IF opts.MaxOpenConns > 0 THEN opts.MaxOpenConns ELSE cfg.MaxOpenConns,
     maxIdle |-> IF opts.MaxIdleConns > 0 THEN opts.MaxIdleConns ELSE cfg.MaxIdleConns,
     maxLife |-> IF opts.ConnMaxLife > 0 THEN opts.ConnMaxLife
                 ELSE cfg.ConnMaxLifetimeMinutes * Minute,
     maxIdleTime |-> opts.ConnMaxIdle]
configurePool(cfg, opts) ==
    [maxOpen |-> IF cfg.MaxOpenConns > 0 THEN cfg.MaxOpenConns ELSE opts.MaxOpenConns,
     maxIdle |-> IF cfg.MaxIdleConns > 0 THEN cfg.MaxIdleConns ELSE opts.MaxIdleConns,
     maxLife |-> IF cfg.ConnMaxLifetimeMinutes > 0 THEN cfg.ConnMaxLifetimeMinutes * Minute
                 ELSE opts.ConnMaxLife,
     maxIdleTime |-> opts.ConnMaxIdle]

\* ------------------------------------------------------------- locals
Loc0 == [driver |-> "", instance |-> "", dialer |-> 0, conn |-> 0, cleanup |-> 0,
         h |-> 0, snap |-> <<>>, i |-> 0, errs |-> <<>>, log |-> <<>>, later |-> FALSE,
         cfg |-> Cfg0, given |-> Options0, override |-> <<>>, opts |-> Options0,
         logged |-> <<>>]

Ret0 == [op |-> "none", driver |-> "", instance |-> "", err |-> "nil", h |-> 0,
         conn |-> 0, dialer |-> 0, names |-> <<>>, log |-> <<>>, snap |-> <<>>,
         later |-> FALSE, cfg |-> Cfg0, given |-> Options0, override |-> <<>>,
         pings |-> 0, ctx |-> 0, lat |-> 0, logged |-> <<>>]

Opt0 == [in |-> Options0, outs |-> <<>>]
\* the fields of a fintechLogger
NoLogger == [level |-> 0, slowThreshold |-> 0, ignoreRecordNotFoundErr |-> FALSE]
Trace0 == [made |-> FALSE, level |-> 0, slowThreshold |-> 0,
           ignoreRecordNotFoundErr |-> FALSE,
           traced |-> FALSE, sql |-> <<>>, err |-> "nil", elapsed |-> 0,
           fcCalls |-> 0, records |-> <<>>,
           copied |-> FALSE, asked |-> 0, recvWas |-> NoLogger, recv |-> NoLogger]
Redact0 == [in |-> <<>>, out |-> <<>>, done |-> FALSE]

\* var ( defaultDB, defaultDBSite *Database; DB, DBSite *gorm.DB; compatMu ):
\* 0 is nil, a handle is its index in handles, a *gorm.DB its index in conns
Pointers0 == [defaultDB |-> 0, defaultDBSite |-> 0, DB |-> 0, DBSite |-> 0]

\* a legacy call in progress: the function, where it is at, its locals and,
\* once it is at "ret", what it returns.  (before, wasCleared and closes are
\* history: the package variables when the call began, whether Cleanup() had
\* returned with no Setup or CreateDatabaseConnection since, and the Close()
\* calls a Cleanup() made)
Frame0 ==
    [fn |-> "none", at |-> "", site |-> FALSE, db |-> 0, dbSite |-> 0, errs |-> <<>>,
     err |-> "nil", names |-> <<>>, alive |-> FALSE,
     before |-> Pointers0, wasCleared |-> FALSE, closes |-> 0]

\* (cleared and created are history: Cleanup() has returned and no Setup or
\* CreateDatabaseConnection has begun since or has failed since; the handles
\* New returned to Setup and CreateDatabaseConnection)
Compat0 ==
    [defaultDB |-> 0, defaultDBSite |-> 0, DB |-> 0, DBSite |-> 0, compatMu |-> "free",
     frame |-> [g \in Goroutines |-> Frame0], cleared |-> FALSE, created |-> {}]

InitProcess ==
    /\ postgresDriverOnce = "new"
    /\ mysqlDriverOnce = "new"
    /\ mysqlCleanupOnce = "new"
    /\ mysqlDriverCleanup = 0
    /\ registry = [d \in Managed |-> [attempts |-> 0, ok |-> FALSE, dialer |-> 0]]
    /\ dialers = <<>>
    /\ conns = <<>>
    /\ handles = <<>>
    /\ ncalls = 0
    /\ pc = [g \in Goroutines |-> "idle"]
    /\ loc = [g \in Goroutines |-> Loc0]
    /\ ret = [g \in Goroutines |-> Ret0]

Init ==
    /\ InitProcess
    /\ opt = Opt0
    /\ trace = Trace0
    /\ redact = Redact0
    /\ compat = Compat0

\* ------------------------------------------------------------- helpers
Goto(g, p) == pc' = [pc EXCEPT ![g] = p]

\* dialer.Close() called by `who` ("connect" or "cleanup")
DialerClose(ds, d, who) == [ds EXCEPT ![d].closers = Append(@, who)]

\* sqlDB.Close()
SqlClose(cs, c) == [cs EXCEPT ![c].closed = TRUE]

\* a connect call returns (nil, nil, err); NewContext returns (nil, "database: err").
\* c and d are the pooled connection and the dialer the call had made, if any.
FailWith(g, stage, c, d) ==
    /\ Goto(g, "ret")
    /\ ret' = [ret EXCEPT ![g] = [Ret0 EXCEPT !.op = "new", !.driver = loc[g].driver,
                                   !.instance = loc[g].instance, !.err = stage,
                                   !.conn = c, !.dialer = d, !.cfg = loc[g].cfg,
                                   !.given = loc[g].given, !.override = loc[g].override,
                                   !.logged = loc[g].logged]]
    /\ loc' = [loc EXCEPT ![g] = Loc0]

Fail(g, stage) == FailWith(g, stage, loc[g].conn, loc[g].dialer)

\* configurePool(sqlDB, cfg, opts), then sqlDB.PingContext(pingCtx); pingPool is
\* the configuration of the pool the ping ran on
PoolThenPing(cs, c, cfg, opts) ==
    [cs EXCEPT ![c].pool = configurePool(cfg, opts), ![c].pingPool = configurePool(cfg, opts)]

\* cfg.Password
Password == "s3cret"

\* buildDialerOptions(opts): WithIAMAuthN, WithDefaultDialOptions(WithPrivateIP)
buildDialerOptions(opts) == [iam |-> opts.UseIAM, private |-> opts.UsePrivateIP]

\* cloudsqlconn.NewDialer / cloudsqlmysql.RegisterDriver: a new dialer
NewDialer(driver, opts) ==
    [driver |-> driver, closers |-> <<>>, options |-> buildDialerOptions(opts)]

\* the password part of the DSN: the managed connectors leave it out under
\* opts.UseIAM, buildDSN never does
DSNPassword(driver, opts) ==
    IF driver \in Managed /\ opts.UseIAM THEN "" ELSE Password

\* sql.Open / gorm.Open: a new *sql.DB
NewConn(driver, d, opts) ==
    [driver |-> driver, dialer |-> d, closed |-> FALSE, pool |-> Pool0, pingPool |-> Pool0,
     password |-> DSNPassword(driver, opts)]

\* the "connected" record handed to pkglogger.Info
ConnectedRecord(driver, instance, opts) ==
    IF driver \in Managed
    THEN [msg |-> "connected", driver |-> driver, instance |-> instance,
          connection_type |-> IF opts.UsePrivateIP THEN "private_ip" ELSE "public_ip",
          iam_auth |-> opts.UseIAM]
    ELSE IF driver = "sqlite"
         THEN [msg |-> "connected", driver |-> driver, dbname |-> "dbname"]
         ELSE [msg |-> "connected", driver |-> driver, host |-> "host", port |-> "port",
               dbname |-> "dbname"]

\* a connect call returns (db, cleanup, nil); NewContext wraps them in a Database
Succeed(g, c, d, cleanup, logged) ==
    /\ handles' = Append(handles, [driver |-> loc[g].driver, db |-> c, opts |-> loc[g].opts,
                                   cleanups |-> IF cleanup.kind = "nil" THEN <<>> ELSE <<cleanup>>,
                                   began |-> 0, returned |-> 0])
    /\ Goto(g, "ret")
    /\ ret' = [ret EXCEPT ![g] = [Ret0 EXCEPT !.op = "new", !.driver = loc[g].driver,
                                   !.instance = loc[g].instance, !.err = "nil",
                                   !.h = Len(handles) + 1, !.conn = c, !.dialer = d,
                                   !.cfg = loc[g].cfg, !.given = loc[g].given,
                                   !.override = loc[g].override, !.logged = logged]]
    /\ loc' = [loc EXCEPT ![g] = Loc0]

\* ------------------------------------------------------------- NewContext
ConnectPc(driver) ==
    CASE driver = PG -> "pg_instance"
      [] driver = MY -> "my_instance"
      [] OTHER -> "std_connect"

\* cfg is the pool part of the DatabaseConfiguration, opts the caller's Options
NewContext(g, driver, instance, cfg, opts, override) ==
    /\ pc[g] = "idle"
    /\ ncalls < MaxCalls
    /\ ncalls' = ncalls + 1
    /\ loc' = [loc EXCEPT ![g] = [Loc0 EXCEPT !.driver = driver, !.instance = instance,
                                              !.cfg = cfg, !.given = opts,
                                              !.override = override,
                                              !.opts = ResolveOptions(opts, override)]]
    /\ Goto(g, ConnectPc(driver))
    /\ UNCHANGED <<process, ret>>
    /\ UNCHANGED pure

\* `cfg.CloudSQLInstance == ""`
InstanceNotCheckedMutant(instance) == FALSE
InstanceMissing(instance) == instance = ""

\* ------------------------------------------------- connectCloudSQLPostgres
PgInstance(g) ==
    /\ pc[g] = "pg_instance"
    /\ IF InstanceMissing(loc[g].instance)
       THEN Fail(g, "instance")
       ELSE Goto(g, "pg_newdialer") /\ UNCHANGED <<loc, ret>>
    /\ UNCHANGED <<process, ncalls>>
    /\ UNCHANGED pure

\* cloudsqlconn.NewDialer: a dialer of this call's own
PgNewDialer(g) ==
    /\ pc[g] = "pg_newdialer"
    /\ \E ok \in BOOLEAN :
         IF ok
         THEN /\ dialers' = Append(dialers, NewDialer(PG, loc[g].opts))
              /\ loc' = [loc EXCEPT ![g].dialer = Len(dialers) + 1]
              /\ Goto(g, "pg_parse")
              /\ UNCHANGED ret
         ELSE Fail(g, "dialer") /\ UNCHANGED dialers
    /\ UNCHANGED <<postgresDriverOnce, mysqlDriverOnce, mysqlCleanupOnce, mysqlDriverCleanup,
                   registry, conns, handles, ncalls>>
    /\ UNCHANGED pure

\* pgx.ParseConfig(dsn); on error dialer.Close()
PgParse(g) ==
    /\ pc[g] = "pg_parse"
    /\ \E ok \in BOOLEAN :
         IF ok
         THEN Goto(g, "pg_once") /\ UNCHANGED <<dialers, loc, ret>>
         ELSE /\ dialers' = DialerClose(dialers, loc[g].dialer, "connect")
              /\ Fail(g, "parse")
    /\ UNCHANGED <<postgresDriverOnce, mysqlDriverOnce, mysqlCleanupOnce, mysqlDriverCleanup,
                   registry, conns, handles, ncalls>>
    /\ UNCHANGED pure

\* postgresDriverOnce.Do(...): entry
PgOnce(g) ==
    /\ pc[g] = "pg_once"
    /\ \/ /\ OnceFast(postgresDriverOnce)
          /\ Goto(g, "pg_open")
          /\ UNCHANGED postgresDriverOnce
       \/ /\ OnceRun(postgresDriverOnce)
          /\ postgresDriverOnce' = "running"
          /\ Goto(g, "pg_register")
    /\ UNCHANGED <<mysqlDriverOnce, mysqlCleanupOnce, mysqlDriverCleanup, registry, dialers,
                   conns, handles, ncalls, loc, ret>>
    /\ UNCHANGED pure

\* sql.Register("cloudsql-postgres", stdlib.GetDefaultDriver()), then Do returns
PgRegister(g) ==
    /\ pc[g] = "pg_register"
    /\ registry' = [registry EXCEPT ![PG].attempts = @ + 1, ![PG].ok = TRUE]
    /\ postgresDriverOnce' = OnceAfter(TRUE)
    /\ Goto(g, "pg_open")
    /\ UNCHANGED <<mysqlDriverOnce, mysqlCleanupOnce, mysqlDriverCleanup, dialers,
                   conns, handles, ncalls, loc, ret>>
    /\ UNCHANGED pure

\* sql.Open(name, ...) fails for a name database/sql has no driver for
CanOpen(name) == registry[name].ok

\* sql.Open("cloudsql-postgres", connStr); on error dialer.Close()
PgOpen(g) ==
    /\ pc[g] = "pg_open"
    /\ \E ok \in BOOLEAN :
         IF ok /\ CanOpen(PG)
         THEN /\ conns' = Append(conns, NewConn(PG, loc[g].dialer, loc[g].opts))
              /\ loc' = [loc EXCEPT ![g].conn = Len(conns) + 1]
              /\ Goto(g, "pg_ping")
              /\ UNCHANGED <<dialers, ret>>
         ELSE /\ dialers' = DialerClose(dialers, loc[g].dialer, "connect")
              /\ Fail(g, "open")
              /\ UNCHANGED conns
    /\ UNCHANGED <<postgresDriverOnce, mysqlDriverOnce, mysqlCleanupOnce, mysqlDriverCleanup,
                   registry, handles, ncalls>>
    /\ UNCHANGED pure

\* configurePool; sqlDB.PingContext(pingCtx); on error sqlDB.Close(), dialer.Close()
PgPing(g) ==
    /\ pc[g] = "pg_ping"
    /\ \E ok \in BOOLEAN :
         IF ok
         THEN /\ conns' = PoolThenPing(conns, loc[g].conn, loc[g].cfg, loc[g].opts)
              /\ loc' = [loc EXCEPT ![g].logged =
                            Append(@, ConnectedRecord(PG, loc[g].instance, loc[g].opts))]
              /\ Goto(g, "pg_gorm")
              /\ UNCHANGED <<dialers, ret>>
         ELSE /\ conns' = SqlClose(PoolThenPing(conns, loc[g].conn, loc[g].cfg, loc[g].opts),
                                   loc[g].conn)
              /\ dialers' = DialerClose(dialers, loc[g].dialer, "connect")
              /\ Fail(g, "ping")
    /\ UNCHANGED <<postgresDriverOnce, mysqlDriverOnce, mysqlCleanupOnce, mysqlDriverCleanup,
                   registry, handles, ncalls>>
    /\ UNCHANGED pure

\* the cleanup connectCloudSQLPostgres returns: dialer.Close
PgCleanup(c, d) == [kind |-> "dialer.Close", ref |-> d]

\* gorm.Open(postgres.New(Conn: sqlDB)); on error sqlDB.Close(), dialer.Close();
\* else return db, dialer.Close, nil
PgGorm(g) ==
    /\ pc[g] = "pg_gorm"
    /\ \E ok \in BOOLEAN :
         IF ok
         THEN /\ Succeed(g, loc[g].conn, loc[g].dialer, PgCleanup(loc[g].conn, loc[g].dialer),
                         loc[g].logged)
              /\ UNCHANGED <<dialers, conns>>
         ELSE /\ conns' = SqlClose(conns, loc[g].conn)
              /\ dialers' = DialerClose(dialers, loc[g].dialer, "connect")
              /\ Fail(g, "gorm")
              /\ UNCHANGED handles
    /\ UNCHANGED <<postgresDriverOnce, mysqlDriverOnce, mysqlCleanupOnce, mysqlDriverCleanup,
                   registry, ncalls>>
    /\ UNCHANGED pure

\* --------------------------------------------------- connectCloudSQLMySQL
MyInstance(g) ==
    /\ pc[g] = "my_instance"
    /\ IF InstanceMissing(loc[g].instance)
       THEN Fail(g, "instance")
       ELSE Goto(g, "my_once") /\ UNCHANGED <<loc, ret>>
    /\ UNCHANGED <<process, ncalls>>
    /\ UNCHANGED pure

\* mysqlDriverOnce.Do(...): entry
MyOnce(g) ==
    /\ pc[g] = "my_once"
    /\ \/ /\ OnceFast(mysqlDriverOnce)
          /\ Goto(g, "my_open")
          /\ UNCHANGED mysqlDriverOnce
       \/ /\ OnceRun(mysqlDriverOnce)
          /\ mysqlDriverOnce' = "running"
          /\ Goto(g, "my_register")
    /\ UNCHANGED <<postgresDriverOnce, mysqlCleanupOnce, mysqlDriverCleanup, registry, dialers,
                   conns, handles, ncalls, loc, ret>>
    /\ UNCHANGED pure

\* cleanup, _ = cloudsqlmysql.RegisterDriver("cloudsql-mysql", ...): creates the
\* dialer and registers the driver over it, or fails, registers nothing and
\* hands back a closure that releases nothing; the error is dropped
MyRegister(g) ==
    /\ pc[g] = "my_register"
    /\ \E ok \in BOOLEAN :
         IF ok
         THEN /\ dialers' = Append(dialers, NewDialer(MY, loc[g].opts))
              /\ registry' = [registry EXCEPT ![MY].attempts = @ + 1, ![MY].ok = TRUE,
                                              ![MY].dialer = Len(dialers) + 1]
              /\ loc' = [loc EXCEPT ![g].cleanup = Len(dialers) + 1]
         ELSE /\ registry' = [registry EXCEPT ![MY].attempts = @ + 1]
              /\ loc' = [loc EXCEPT ![g].cleanup = -1]
              /\ UNCHANGED dialers
    /\ Goto(g, "my_store")
    /\ UNCHANGED <<postgresDriverOnce, mysqlDriverOnce, mysqlCleanupOnce, mysqlDriverCleanup,
                   conns, handles, ncalls, ret>>
    /\ UNCHANGED pure

\* mysqlDriverCleanup = cleanup, then Do returns
MyStore(g) ==
    /\ pc[g] = "my_store"
    /\ mysqlDriverCleanup' = loc[g].cleanup
    /\ mysqlDriverOnce' = OnceAfter(registry[MY].ok)
    /\ loc' = [loc EXCEPT ![g].cleanup = 0]
    /\ Goto(g, "my_open")
    /\ UNCHANGED <<postgresDriverOnce, mysqlCleanupOnce, registry, dialers, conns, handles,
                   ncalls, ret>>
    /\ UNCHANGED pure

\* gorm.Open(mysql.New(DriverName: "cloudsql-mysql", DSN: dsn))
MyOpen(g) ==
    /\ pc[g] = "my_open"
    /\ \E ok \in BOOLEAN :
         IF ok /\ CanOpen(MY)
         THEN /\ conns' = Append(conns, NewConn(MY, registry[MY].dialer, loc[g].opts))
              /\ loc' = [loc EXCEPT ![g].conn = Len(conns) + 1, ![g].dialer = registry[MY].dialer]
              /\ Goto(g, "my_db")
              /\ UNCHANGED ret
         ELSE Fail(g, "open") /\ UNCHANGED conns
    /\ UNCHANGED <<postgresDriverOnce, mysqlDriverOnce, mysqlCleanupOnce, mysqlDriverCleanup,
                   registry, dialers, handles, ncalls>>
    /\ UNCHANGED pure

\* sqlDB, err := db.DB()
MyDB(g) ==
    /\ pc[g] = "my_db"
    /\ \E ok \in BOOLEAN :
         IF ok
         THEN Goto(g, "my_ping") /\ UNCHANGED <<loc, ret>>
         ELSE Fail(g, "getdb")
    /\ UNCHANGED <<process, ncalls>>
    /\ UNCHANGED pure

\* the cleanup connectCloudSQLMySQL returns: closeFn over sqlDBToClose
MyCleanup(c) == [kind |-> "closeFn", ref |-> c]

\* configurePool; sqlDB.PingContext(pingCtx); on error sqlDB.Close();
\* else return db, closeFn, nil
MyPing(g) ==
    /\ pc[g] = "my_ping"
    /\ \E ok \in BOOLEAN :
         IF ok
         THEN /\ conns' = PoolThenPing(conns, loc[g].conn, loc[g].cfg, loc[g].opts)
              /\ Succeed(g, loc[g].conn, loc[g].dialer, MyCleanup(loc[g].conn),
                         <<ConnectedRecord(MY, loc[g].instance, loc[g].opts)>>)
              /\ UNCHANGED dialers
         ELSE /\ conns' = SqlClose(PoolThenPing(conns, loc[g].conn, loc[g].cfg, loc[g].opts),
                                   loc[g].conn)
              /\ Fail(g, "ping")
              /\ UNCHANGED dialers
              /\ UNCHANGED handles
    /\ UNCHANGED <<postgresDriverOnce, mysqlDriverOnce, mysqlCleanupOnce, mysqlDriverCleanup,
                   registry, ncalls>>
    /\ UNCHANGED pure

\* -------------------------------------------------------- connectStandard
\* buildDSN: the DSN text and the error; only the driver decides which
buildDSNFallbackMutant(driver) ==
    CASE driver = "mysql" -> [dsn |-> "user:pw@tcp(host:port)/db", err |-> "nil"]
      [] driver = "postgres" -> [dsn |-> "host= user= password= dbname= port= sslmode=", err |-> "nil"]
      [] driver = "sqlserver" -> [dsn |-> "sqlserver://user:pw@host:port?database=", err |-> "nil"]
      [] OTHER -> [dsn |-> "./db.db", err |-> "nil"]
buildDSN(driver) ==
    CASE driver = "mysql" -> [dsn |-> "user:pw@tcp(host:port)/db", err |-> "nil"]
      [] driver = "postgres" -> [dsn |-> "host= user= password= dbname= port= sslmode=", err |-> "nil"]
      [] driver = "sqlite" -> [dsn |-> "./db.db", err |-> "nil"]
      [] driver = "sqlserver" -> [dsn |-> "sqlserver://user:pw@host:port?database=", err |-> "nil"]
      [] OTHER -> [dsn |-> "", err |-> "unsupported driver"]

\* the dialector switch of connectStandard
Supported(driver) == driver \in {"mysql", "postgres", "sqlite", "sqlserver"}

\* buildDSN, gorm.Open, db.DB(), configurePool, ping; touches no process-wide
\* state, so the call is one step.  stage is where it ends.
StdConnect(g) ==
    /\ pc[g] = "std_connect"
    /\ IF buildDSN(loc[g].driver).err # "nil" \/ ~Supported(loc[g].driver)
       THEN Fail(g, "unsupported") /\ UNCHANGED <<conns, handles>>
       ELSE \E stage \in {"open", "getdb", "ping", "nil"} :
              CASE stage = "open" -> Fail(g, "open") /\ UNCHANGED <<conns, handles>>
                [] stage = "getdb" ->
                     /\ conns' = Append(conns, NewConn(loc[g].driver, 0, loc[g].opts))
                     /\ FailWith(g, "getdb", Len(conns) + 1, 0)
                     /\ UNCHANGED handles
                [] stage = "ping" ->
                     /\ conns' = SqlClose(PoolThenPing(Append(conns, NewConn(loc[g].driver, 0, loc[g].opts)),
                                                       Len(conns) + 1, loc[g].cfg, loc[g].opts),
                                          Len(conns) + 1)
                     /\ FailWith(g, "ping", Len(conns) + 1, 0)
                     /\ UNCHANGED handles
                [] stage = "nil" ->
                     /\ conns' = PoolThenPing(Append(conns, NewConn(loc[g].driver, 0, loc[g].opts)),
                                              Len(conns) + 1, loc[g].cfg, loc[g].opts)
                     /\ Succeed(g, Len(conns) + 1, 0,
                                [kind |-> "sqlDB.Close", ref |-> Len(conns) + 1],
                                <<ConnectedRecord(loc[g].driver, loc[g].instance, loc[g].opts)>>)
    /\ UNCHANGED <<postgresDriverOnce, mysqlDriverOnce, mysqlCleanupOnce, mysqlDriverCleanup,
                   registry, dialers, ncalls>>
    /\ UNCHANGED pure

\* a Database built directly, as the package's tests do: n cleanup closures
NewLiteral(n) ==
    /\ ncalls < MaxCalls
    /\ ncalls' = ncalls + 1
    /\ handles' = Append(handles, [driver |-> "", db |-> 0,
                                   opts |-> [Options0 EXCEPT !.PingTimeout = 5 * Second],
                                   cleanups |-> [k \in 1..n |-> [kind |-> "stub", ref |-> k]],
                                   began |-> 0, returned |-> 0])
    /\ UNCHANGED <<postgresDriverOnce, mysqlDriverOnce, mysqlCleanupOnce, mysqlDriverCleanup,
                   registry, dialers, conns, pc, loc, ret>>
    /\ UNCHANGED pure

\* ------------------------------------------------------ Database.Health
\* a context without deadline
NoDeadline == 3600 * Second
\* time left on the caller's ctx (0: already done), and time a ping would take
CtxLeft == {0, 4 * Second, NoDeadline}
PingTakes == {1 * Millisecond, 3 * Second, 6 * Second}
\* PingTimeout values given by callers (0: left to applyDefaults)
PingTimeouts == {0, 2 * Second}

\* context.WithTimeout(ctx, d.opts.PingTimeout): the earlier deadline wins
PingDeadlineCtxOnlyMutant(ctx, timeout) == ctx
PingDeadline(ctx, timeout) == IF ctx < timeout THEN ctx ELSE timeout

\* sqlDB.PingContext(pingCtx): fails on a closed pool and when pingCtx is done
\* before the server answers
PingContext(c, deadline, lat) == ~conns[c].closed /\ lat < deadline

\* dbOK: whether d.db.DB() returns the pool; lat: the time the ping would take
Health(g, h, ctx, dbOK, lat) ==
    /\ pc[g] = "idle"
    /\ h \in 1..Len(handles)
    /\ Goto(g, "ret")
    /\ LET d == handles[h]
           res == [Ret0 EXCEPT !.op = "health", !.h = h, !.ctx = ctx, !.lat = lat]
       IN ret' = [ret EXCEPT ![g] =
            IF d.db = 0
            THEN [res EXCEPT !.err = "database not initialized"]
            ELSE IF ~dbOK
            THEN [res EXCEPT !.err = "get sql.DB"]
            ELSE IF PingContext(d.db, PingDeadline(ctx, d.opts.PingTimeout), lat)
            THEN [res EXCEPT !.err = "nil", !.pings = 1]
            ELSE [res EXCEPT !.err = "ping", !.pings = 1]]
    /\ UNCHANGED <<process, ncalls, loc>>
    /\ UNCHANGED pure

\* ------------------------------------------------------- Database.Close
\* `for _, fn := range d.cleanups`: the slice is read once, on entry
RECURSIVE CloseCalls(_)
CloseCalls(hs) == IF hs = <<>> THEN 0 ELSE Head(hs).began + CloseCalls(Tail(hs))

Close(g, h) ==
    /\ pc[g] = "idle"
    /\ h \in 1..Len(handles)
    /\ CloseCalls(handles) < MaxCloses
    /\ handles' = [handles EXCEPT ![h].began = @ + 1]
    /\ loc' = [loc EXCEPT ![g] = [Loc0 EXCEPT !.h = h, !.snap = handles[h].cleanups, !.i = 1,
                                              !.later = handles[h].returned > 0]]
    /\ Goto(g, "close_loop")
    /\ UNCHANGED <<postgresDriverOnce, mysqlDriverOnce, mysqlCleanupOnce, mysqlDriverCleanup,
                   registry, dialers, conns, ncalls, ret>>
    /\ UNCHANGED pure

Current(g) == loc[g].snap[loc[g].i]

\* `if err := fn(); err != nil { errs = append(errs, err) }`, next closure
CollectStopAtFirstMutant(l, failed) ==
    [l EXCEPT !.errs = IF failed THEN Append(@, l.i) ELSE @,
              !.log = Append(@, [i |-> l.i, failed |-> failed]),
              !.i = IF failed THEN Len(l.snap) + 1 ELSE @ + 1]
Collect(l, failed) ==
    [l EXCEPT !.errs = IF failed THEN Append(@, l.i) ELSE @,
              !.log = Append(@, [i |-> l.i, failed |-> failed]),
              !.i = @ + 1]

\* fn is a Postgres handle's dialer.Close
CloseDialer(g) ==
    /\ pc[g] = "close_loop"
    /\ loc[g].i <= Len(loc[g].snap)
    /\ Current(g).kind = "dialer.Close"
    /\ dialers' = DialerClose(dialers, Current(g).ref, "cleanup")
    /\ \E failed \in BOOLEAN : loc' = [loc EXCEPT ![g] = Collect(loc[g], failed)]
    /\ UNCHANGED <<postgresDriverOnce, mysqlDriverOnce, mysqlCleanupOnce, mysqlDriverCleanup,
                   registry, conns, handles, ncalls, pc, ret>>
    /\ UNCHANGED pure

\* fn is a standard handle's `func() error { return sqlDB.Close() }`
CloseSqlDB(g) ==
    /\ pc[g] = "close_loop"
    /\ loc[g].i <= Len(loc[g].snap)
    /\ Current(g).kind = "sqlDB.Close"
    /\ conns' = SqlClose(conns, Current(g).ref)
    /\ \E failed \in BOOLEAN : loc' = [loc EXCEPT ![g] = Collect(loc[g], failed)]
    /\ UNCHANGED <<postgresDriverOnce, mysqlDriverOnce, mysqlCleanupOnce, mysqlDriverCleanup,
                   registry, dialers, handles, ncalls, pc, ret>>
    /\ UNCHANGED pure

\* fn is a closure of a directly built handle
CloseStub(g) ==
    /\ pc[g] = "close_loop"
    /\ loc[g].i <= Len(loc[g].snap)
    /\ Current(g).kind = "stub"
    /\ \E failed \in BOOLEAN : loc' = [loc EXCEPT ![g] = Collect(loc[g], failed)]
    /\ UNCHANGED <<process, ncalls, pc, ret>>
    /\ UNCHANGED pure

\* fn is a MySQL handle's closeFn: sqlDBToClose.Close()
CloseFnSql(g) ==
    /\ pc[g] = "close_loop"
    /\ loc[g].i <= Len(loc[g].snap)
    /\ Current(g).kind = "closeFn"
    /\ conns' = SqlClose(conns, Current(g).ref)
    /\ Goto(g, "cl_once")
    /\ UNCHANGED <<postgresDriverOnce, mysqlDriverOnce, mysqlCleanupOnce, mysqlDriverCleanup,
                   registry, dialers, handles, ncalls, loc, ret>>
    /\ UNCHANGED pure

\* closeFn: mysqlCleanupOnce.Do(...): entry; when the guard is spent, return nil
CloseFnOnce(g) ==
    /\ pc[g] = "cl_once"
    /\ \/ /\ OnceFast(mysqlCleanupOnce)
          /\ loc' = [loc EXCEPT ![g] = Collect(loc[g], FALSE)]
          /\ Goto(g, "close_loop")
          /\ UNCHANGED mysqlCleanupOnce
       \/ /\ OnceRun(mysqlCleanupOnce)
          /\ mysqlCleanupOnce' = "running"
          /\ Goto(g, "cl_release")
          /\ UNCHANGED loc
    /\ UNCHANGED <<postgresDriverOnce, mysqlDriverOnce, mysqlDriverCleanup, registry, dialers,
                   conns, handles, ncalls, ret>>
    /\ UNCHANGED pure

\* closeFn: `if mysqlDriverCleanup != nil { mysqlDriverCleanup() }`, Do returns,
\* return nil
CloseFnRelease(g) ==
    /\ pc[g] = "cl_release"
    /\ dialers' = IF mysqlDriverCleanup > 0
                  THEN DialerClose(dialers, mysqlDriverCleanup, "cleanup")
                  ELSE dialers
    /\ mysqlCleanupOnce' = OnceAfter(TRUE)
    /\ loc' = [loc EXCEPT ![g] = Collect(loc[g], FALSE)]
    /\ Goto(g, "close_loop")
    /\ UNCHANGED <<postgresDriverOnce, mysqlDriverOnce, mysqlDriverCleanup, registry,
                   conns, handles, ncalls, ret>>
    /\ UNCHANGED pure

\* `fmt.Errorf("close: %v", errs)` when len(errs) > 0, else nil: the error
\* prints every collected error
CloseError(errs) == errs

\* `d.cleanups = nil`
CleanupsKeptMutant(cleanups) == cleanups
CleanupsAfterClose(cleanups) == <<>>

\* (log, snap and later are history: the closures this call invoked and how each
\* ended, the list it ranged over, whether a Close() of the handle had returned
\* when it began)
\* the loop is over: d.cleanups = nil, return
CloseReturn(g) ==
    /\ pc[g] = "close_loop"
    /\ loc[g].i > Len(loc[g].snap)
    /\ handles' = [handles EXCEPT ![loc[g].h].cleanups = CleanupsAfterClose(@),
                                  ![loc[g].h].returned = @ + 1]
    /\ ret' = [ret EXCEPT ![g] = [Ret0 EXCEPT !.op = "close", !.h = loc[g].h,
                                   !.err = IF Len(CloseError(loc[g].errs)) > 0 THEN "close" ELSE "nil",
                                   !.names = CloseError(loc[g].errs),
                                   !.log = loc[g].log, !.snap = loc[g].snap,
                                   !.later = loc[g].later]]
    /\ loc' = [loc EXCEPT ![g] = Loc0]
    /\ Goto(g, "ret")
    /\ UNCHANGED <<postgresDriverOnce, mysqlDriverOnce, mysqlCleanupOnce, mysqlDriverCleanup,
                   registry, dialers, conns, ncalls>>
    /\ UNCHANGED pure

\* the caller takes the returned values and goes on
Resume(g) ==
    /\ pc[g] = "ret"
    /\ ret' = [ret EXCEPT ![g] = Ret0]
    /\ Goto(g, "idle")
    /\ UNCHANGED <<process, ncalls, loc>>
    /\ UNCHANGED pure

Next ==
    \/ \E g \in Goroutines, d \in Drivers, i \in Instances :
          NewContext(g, d, i, Cfg0, Options0, <<>>)
    \/ \E g \in Goroutines : PgInstance(g)
    \/ \E g \in Goroutines : PgNewDialer(g)
    \/ \E g \in Goroutines : PgParse(g)
    \/ \E g \in Goroutines : PgOnce(g)
    \/ \E g \in Goroutines : PgRegister(g)
    \/ \E g \in Goroutines : PgOpen(g)
    \/ \E g \in Goroutines : PgPing(g)
    \/ \E g \in Goroutines : PgGorm(g)
    \/ \E g \in Goroutines : MyInstance(g)
    \/ \E g \in Goroutines : MyOnce(g)
    \/ \E g \in Goroutines : MyRegister(g)
    \/ \E g \in Goroutines : MyStore(g)
    \/ \E g \in Goroutines : MyOpen(g)
    \/ \E g \in Goroutines : MyDB(g)
    \/ \E g \in Goroutines : MyPing(g)
    \/ \E g \in Goroutines : StdConnect(g)
    \/ \E g \in Goroutines, h \in 1..MaxCalls : Close(g, h)
    \/ \E g \in Goroutines : CloseDialer(g)
    \/ \E g \in Goroutines : CloseSqlDB(g)
    \/ \E g \in Goroutines : CloseFnSql(g)
    \/ \E g \in Goroutines : CloseFnOnce(g)
    \/ \E g \in Goroutines : CloseFnRelease(g)
    \/ \E g \in Goroutines : CloseReturn(g)
    \/ \E g \in Goroutines : Resume(g)

Spec == Init /\ [][Next]_vars

\* Close() on handles built directly with any list of cleanup closures
NextClose ==
    \/ \E n \in 0..MaxCleanups : NewLiteral(n)
    \/ \E g \in Goroutines, h \in 1..MaxCalls : Close(g, h)
    \/ \E g \in Goroutines : CloseStub(g)
    \/ \E g \in Goroutines : CloseReturn(g)
    \/ \E g \in Goroutines : Resume(g)

SpecClose == Init /\ [][NextClose]_vars

\* --------------------------------------------------------------- redactSQL
\* A query text is the sequence of its characters.  The placeholder, which no
\* pattern can match into, is kept as one element.
redactionPlaceholder == "[REDACTED]"

\* the keyword alternatives of the five patterns, each
\* (?i)(kw|kw|..)\s*=\s*['"]?[^'"\s]+['"]?
sensitivePatterns ==
    <<<<<<"p", "a", "s", "s", "w", "o", "r", "d">>,
        <<"p", "a", "s", "s", "w", "d">>,
        <<"p", "w", "d">>>>,
      <<<<"t", "o", "k", "e", "n">>,
        <<"s", "e", "c", "r", "e", "t">>,
        <<"a", "p", "i", "_", "k", "e", "y">>,
        <<"a", "p", "i", "k", "e", "y">>>>,
      <<<<"c", "r", "e", "d", "i", "t", "_", "c", "a", "r", "d">>,
        <<"c", "a", "r", "d", "_", "n", "u", "m", "b", "e", "r">>,
        <<"c", "c", "_", "n", "u", "m", "b", "e", "r">>>>,
      <<<<"s", "s", "n">>,
        <<"s", "o", "c", "i", "a", "l", "_", "s", "e", "c", "u", "r", "i", "t", "y">>>>,
      <<<<"p", "i", "n">>,
        <<"o", "t", "p">>>>>>

UpperCase == <<"A", "B", "C", "D", "E", "F", "G", "H", "I", "J", "K", "L", "M",
               "N", "O", "P", "Q", "R", "S", "T", "U", "V", "W", "X", "Y", "Z">>
LowerCase == <<"a", "b", "c", "d", "e", "f", "g", "h", "i", "j", "k", "l", "m",
               "n", "o", "p", "q", "r", "s", "t", "u", "v", "w", "x", "y", "z">>
\* (?i): letters match in either case
FoldOf == [c \in {UpperCase[i] : i \in 1..26} |->
             LowerCase[CHOOSE i \in 1..26 : UpperCase[i] = c]]
Fold(c) == IF c \in DOMAIN FoldOf THEN FoldOf[c] ELSE c

IsSpace(c) == c \in {" ", "\t", "\n", "\r", "\f"}
IsQuote(c) == c \in {"'", "\""}

\* the keyword kw at position p of s
KeywordAt(s, p, kw) ==
    /\ p + Len(kw) - 1 <= Len(s)
    /\ \A i \in 1..Len(kw) : Fold(s[p + i - 1]) = kw[i]

\* \s* from p: the first position that holds no space
RECURSIVE SkipSpaces(_, _)
SkipSpaces(s, p) == IF p <= Len(s) /\ IsSpace(s[p]) THEN SkipSpaces(s, p + 1) ELSE p

\* [^'"\s]* from p: the first position that holds a quote or a space
RECURSIVE SkipValue(_, _)
SkipValue(s, p) ==
    IF p <= Len(s) /\ ~IsQuote(s[p]) /\ ~IsSpace(s[p]) THEN SkipValue(s, p + 1) ELSE p

\* the rest of a pattern after its keyword ended before position p: the
\* position after the match, 0 when there is none
AssignmentEnd(s, p) ==
    LET eq == SkipSpaces(s, p)
    IN IF eq > Len(s) \/ s[eq] # "=" THEN 0
       ELSE LET v == SkipSpaces(s, eq + 1)
                from == IF v <= Len(s) /\ IsQuote(s[v]) THEN v + 1 ELSE v
                to == SkipValue(s, from)
            IN IF to = from THEN 0
               ELSE IF to <= Len(s) /\ IsQuote(s[to]) THEN to + 1 ELSE to

\* a pattern at position p: the first alternative that matches, as
\* [kw, end]; end = 0 when none does
RECURSIVE MatchAt(_, _, _)
MatchAt(s, p, alts) ==
    IF alts = <<>> THEN [kw |-> 0, end |-> 0]
    ELSE IF KeywordAt(s, p, Head(alts)) /\ AssignmentEnd(s, p + Len(Head(alts))) # 0
    THEN [kw |-> Len(Head(alts)), end |-> AssignmentEnd(s, p + Len(Head(alts)))]
    ELSE MatchAt(s, p, Tail(alts))

\* re.ReplaceAllString(s, "$1="+redactionPlaceholder) from position p on
RECURSIVE ReplaceAllFrom(_, _, _)
ReplaceAllFrom(s, p, alts) ==
    IF p > Len(s) THEN <<>>
    ELSE LET m == MatchAt(s, p, alts)
         IN IF m.end = 0 THEN <<s[p]>> \o ReplaceAllFrom(s, p + 1, alts)
            ELSE SubSeq(s, p, p + m.kw - 1) \o <<"=", redactionPlaceholder>>
                 \o ReplaceAllFrom(s, m.end, alts)

\* for _, re := range sensitivePatterns { s = re.ReplaceAllString(..) }
RECURSIVE ReplaceEach(_, _)
ReplaceEach(s, patterns) ==
    IF patterns = <<>> THEN s
    ELSE ReplaceEach(ReplaceAllFrom(s, 1, Head(patterns)), Tail(patterns))

DoubledAt(s, p) ==
    /\ p + 2 <= Len(s)
    /\ s[p] = redactionPlaceholder /\ s[p + 1] = " " /\ s[p + 2] = redactionPlaceholder

\* strings.ReplaceAll(s, placeholder+" "+placeholder, placeholder)
RECURSIVE CollapseFrom(_, _)
CollapseFrom(s, p) ==
    IF p > Len(s) THEN <<>>
    ELSE IF DoubledAt(s, p) THEN <<redactionPlaceholder>> \o CollapseFrom(s, p + 3)
    ELSE <<s[p]>> \o CollapseFrom(s, p + 1)

\* for strings.Contains(s, ..) { s = strings.ReplaceAll(s, ..) }
RECURSIVE Collapse(_)
Collapse(s) ==
    IF \E p \in 1..Len(s) : DoubledAt(s, p) THEN Collapse(CollapseFrom(s, 1)) ELSE s

redactSQL(sql) == Collapse(ReplaceEach(sql, sensitivePatterns))

\* the characters of a text given in pieces
RECURSIVE Chars(_)
Chars(pieces) == IF pieces = <<>> THEN <<>> ELSE Head(pieces) \o Chars(Tail(pieces))

\* ------------------------------------------------- applyDefaults alone
MaxApply == 2   \* successive applyDefaults() calls on one Options value

\* field values of a caller's Options: negative, zero, positive; LogLevel
\* below, inside and above logger.Silent..logger.Info
Numbers == {-1, 0, 7}
LogLevels == 0..5
OptionsValues ==
    [UseIAM : BOOLEAN, UsePrivateIP : BOOLEAN, LogLevel : LogLevels,
     MaxOpenConns : Numbers, MaxIdleConns : Numbers, ConnMaxLife : Numbers,
     ConnMaxIdle : Numbers, SlowThreshold : Numbers, PingTimeout : Numbers]

InitOptions ==
    /\ InitProcess
    /\ opt \in {[in |-> o, outs |-> <<>>] : o \in OptionsValues}
    /\ trace = Trace0
    /\ redact = Redact0
    /\ compat = Compat0

\* o.applyDefaults(), on the value the previous call left
ApplyDefaultsCall ==
    /\ Len(opt.outs) < MaxApply
    /\ opt' = [opt EXCEPT !.outs = Append(@, applyDefaults(IF @ = <<>> THEN opt.in
                                                           ELSE @[Len(@)]))]
    /\ UNCHANGED <<process, ncalls, pc, loc, ret, trace, redact, compat>>

NextOptions == ApplyDefaultsCall

SpecOptions == InitOptions /\ [][NextOptions]_vars

\* --------------------------------------------- pool settings of a connect
\* DatabaseConfiguration pool overrides: none; max-open and lifetime but not
\* max-idle
Cfgs == {Cfg0, [Cfg0 EXCEPT !.MaxOpenConns = 5, !.ConnMaxLifetimeMinutes = 2]}
\* caller's Options: the zero value, and one with explicit pool fields
Opts == {Options0,
         [Options0 EXCEPT !.MaxOpenConns = 20, !.MaxIdleConns = -1,
                          !.ConnMaxLife = 7 * Minute, !.ConnMaxIdle = 3 * Minute]}
Production == [fn |-> "WithProductionPoolDefaults", v |-> 0]
MaxOpen100 == [fn |-> "WithMaxOpenConns", v |-> 100]
Overrides == {<<>>, <<Production>>, <<Production, MaxOpen100>>}

\* one caller connecting through the standard and both managed connectors
NextPool ==
    \/ \E d \in {"sqlite", PG, MY}, cfg \in Cfgs, opts \in Opts, override \in Overrides :
          NewContext("g1", d, "proj:region:inst", cfg, opts, override)
    \/ PgInstance("g1")
    \/ PgNewDialer("g1")
    \/ PgParse("g1")
    \/ PgOnce("g1")
    \/ PgRegister("g1")
    \/ PgOpen("g1")
    \/ PgPing("g1")
    \/ PgGorm("g1")
    \/ MyInstance("g1")
    \/ MyOnce("g1")
    \/ MyRegister("g1")
    \/ MyStore("g1")
    \/ MyOpen("g1")
    \/ MyDB("g1")
    \/ MyPing("g1")
    \/ StdConnect("g1")
    \/ Resume("g1")

SpecPool == Init /\ [][NextPool]_vars

\* ------------------------------------------- legacy package-level handles
ErrNotInitialized == "database.ErrNotInitialized"

Frame(g) == compat.frame[g]
Pointers(c) == [defaultDB |-> c.defaultDB, defaultDBSite |-> c.defaultDBSite,
                DB |-> c.DB, DBSite |-> c.DBSite]

\* the legacy function takes what the call it made returned
Consume(g) ==
    /\ pc' = [pc EXCEPT ![g] = "idle"]
    /\ ret' = [ret EXCEPT ![g] = Ret0]

\* the legacy function returns
Return(f, err) == [f EXCEPT !.at = "ret", !.err = err]

\* Setup(): cfg := config.GetConfig(); site: cfg.DatabaseSite.Dbname != ""
Setup(g, site) ==
    /\ pc[g] = "idle"
    /\ Frame(g).fn = "none"
    /\ ncalls + (IF site THEN 2 ELSE 1) <= MaxCalls
    /\ compat' = [compat EXCEPT !.cleared = FALSE,
                                !.frame[g] = [Frame0 EXCEPT !.fn = "Setup", !.at = "primary",
                                                           !.site = site,
                                                           !.before = Pointers(compat),
                                                           !.wasCleared = compat.cleared]]
    /\ UNCHANGED <<process, ncalls, pc, loc, ret, opt, trace, redact>>

\* db, err := New(&cfg.Database, opts)
SetupNewPrimary(g) ==
    /\ Frame(g).fn = "Setup" /\ Frame(g).at = "primary"
    /\ NewContext(g, "sqlite", "", Cfg0, Options0, <<>>)

\* `if err != nil { return err }`, else under compatMu.Lock():
\* defaultDB = db; DB = db.DB(); then on to the site database, if configured
SetupPrimaryDone(g) ==
    /\ Frame(g).fn = "Setup" /\ Frame(g).at = "primary"
    /\ pc[g] = "ret" /\ ret[g].op = "new"
    /\ IF ret[g].err # "nil"
       THEN compat' = [compat EXCEPT !.cleared = Frame(g).wasCleared,
                                     !.frame[g] = Return(@, ret[g].err)]
       ELSE /\ compat.compatMu = "free"
            /\ compat' = [compat EXCEPT !.defaultDB = ret[g].h,
                                        !.DB = handles[ret[g].h].db,
                                        !.created = @ \cup {ret[g].h},
                                        !.frame[g] = IF @.site THEN [@ EXCEPT !.at = "site"]
                                                     ELSE Return(@, "nil")]
    /\ Consume(g)
    /\ UNCHANGED <<process, ncalls, loc, opt, trace, redact>>

\* dbSite, err := New(&cfg.DatabaseSite, optsSite)
SetupNewSite(g) ==
    /\ Frame(g).fn = "Setup" /\ Frame(g).at = "site"
    /\ NewContext(g, "sqlite", "", Cfg0, Options0, <<>>)

\* `if err != nil { return err }`, else under compatMu.Lock():
\* defaultDBSite = dbSite; DBSite = dbSite.DB(); return nil
SetupSiteDone(g) ==
    /\ Frame(g).fn = "Setup" /\ Frame(g).at = "site"
    /\ pc[g] = "ret" /\ ret[g].op = "new"
    /\ IF ret[g].err # "nil"
       THEN compat' = [compat EXCEPT !.cleared = Frame(g).wasCleared,
                                     !.frame[g] = Return(@, ret[g].err)]
       ELSE /\ compat.compatMu = "free"
            /\ compat' = [compat EXCEPT !.defaultDBSite = ret[g].h,
                                        !.DBSite = handles[ret[g].h].db,
                                        !.created = @ \cup {ret[g].h},
                                        !.frame[g] = Return(@, "nil")]
    /\ Consume(g)
    /\ UNCHANGED <<process, ncalls, loc, opt, trace, redact>>

\* CreateDatabaseConnection(cfg)
CreateDatabaseConnection(g) ==
    /\ pc[g] = "idle"
    /\ Frame(g).fn = "none"
    /\ ncalls < MaxCalls
    /\ compat' = [compat EXCEPT !.cleared = FALSE,
                                !.frame[g] = [Frame0 EXCEPT !.fn = "CreateDatabaseConnection",
                                                           !.at = "primary",
                                                           !.before = Pointers(compat),
                                                           !.wasCleared = compat.cleared]]
    /\ UNCHANGED <<process, ncalls, pc, loc, ret, opt, trace, redact>>

\* db, err := New(cfg, opts)
CreateNew(g) ==
    /\ Frame(g).fn = "CreateDatabaseConnection" /\ Frame(g).at = "primary"
    /\ NewContext(g, "sqlite", "", Cfg0, Options0, <<>>)

\* `if err != nil { return nil, err }`, else under compatMu.Lock():
\* defaultDB = db; DB = db.DB(); return db.DB(), nil
CreateDone(g) ==
    /\ Frame(g).fn = "CreateDatabaseConnection" /\ Frame(g).at = "primary"
    /\ pc[g] = "ret" /\ ret[g].op = "new"
    /\ IF ret[g].err # "nil"
       THEN compat' = [compat EXCEPT !.cleared = Frame(g).wasCleared,
                                     !.frame[g] = Return(@, ret[g].err)]
       ELSE /\ compat.compatMu = "free"
            /\ compat' = [compat EXCEPT !.defaultDB = ret[g].h,
                                        !.DB = handles[ret[g].h].db,
                                        !.created = @ \cup {ret[g].h},
                                        !.frame[g] = Return(@, "nil")]
    /\ Consume(g)
    /\ UNCHANGED <<process, ncalls, loc, opt, trace, redact>>

\* the Close() calls a Cleanup() beginning now would make
CleanupCloses == (IF compat.defaultDB # 0 THEN 1 ELSE 0)
                    + (IF compat.defaultDBSite # 0 THEN 1 ELSE 0)

\* Cleanup(): compatMu.Lock(); defer compatMu.Unlock(); var errs []error
Cleanup(g) ==
    /\ pc[g] = "idle"
    /\ Frame(g).fn = "none"
    /\ compat.compatMu = "free"
    /\ CloseCalls(handles) + CleanupCloses <= MaxCloses
    /\ compat' = [compat EXCEPT !.compatMu = g,
                                !.frame[g] = [Frame0 EXCEPT !.fn = "Cleanup", !.at = "primary",
                                                           !.before = Pointers(compat),
                                                           !.wasCleared = compat.cleared]]
    /\ UNCHANGED <<process, ncalls, pc, loc, ret, opt, trace, redact>>

\* `if defaultDB != nil { if err := defaultDB.Close()`
CleanupClosePrimary(g) ==
    /\ Frame(g).fn = "Cleanup" /\ Frame(g).at = "primary"
    /\ compat.defaultDB # 0
    /\ Close(g, compat.defaultDB)

\* `err != nil { errs = append(errs, err) }; defaultDB = nil; DB = nil }`, or
\* defaultDB was nil
CleanupPrimaryDone(g) ==
    /\ Frame(g).fn = "Cleanup" /\ Frame(g).at = "primary"
    /\ \/ /\ compat.defaultDB = 0 /\ pc[g] = "idle"
          /\ compat' = [compat EXCEPT !.frame[g].at = "site"]
          /\ UNCHANGED <<pc, ret>>
       \/ /\ pc[g] = "ret" /\ ret[g].op = "close"
          /\ compat' = [compat EXCEPT !.defaultDB = 0, !.DB = 0,
                           !.frame[g] = [@ EXCEPT !.at = "site", !.closes = @ + 1,
                                                  !.errs = IF ret[g].err # "nil"
                                                           THEN Append(@, "primary") ELSE @]]
          /\ Consume(g)
    /\ UNCHANGED <<process, ncalls, loc, opt, trace, redact>>

\* `if defaultDBSite != nil { if err := defaultDBSite.Close()`
CleanupCloseSite(g) ==
    /\ Frame(g).fn = "Cleanup" /\ Frame(g).at = "site"
    /\ compat.defaultDBSite # 0
    /\ Close(g, compat.defaultDBSite)

\* `if len(errs) > 0 { return errs[0] }; return nil`
CleanupError(errs) == IF Len(errs) > 0 THEN <<errs[1]>> ELSE <<>>

\* `err != nil { errs = append(errs, err) }; defaultDBSite = nil; DBSite = nil }`,
\* or defaultDBSite was nil; then the return and the deferred Unlock
CleanupSiteDone(g) ==
    /\ Frame(g).fn = "Cleanup" /\ Frame(g).at = "site"
    /\ \/ /\ compat.defaultDBSite = 0 /\ pc[g] = "idle"
          /\ compat' = [compat EXCEPT !.compatMu = "free", !.cleared = TRUE,
                           !.frame[g] = [Return(@, IF Len(@.errs) > 0 THEN "close" ELSE "nil")
                                            EXCEPT !.names = CleanupError(Frame(g).errs)]]
          /\ UNCHANGED <<pc, ret>>
       \/ /\ pc[g] = "ret" /\ ret[g].op = "close"
          /\ LET errs == IF ret[g].err # "nil" THEN Append(Frame(g).errs, "site")
                         ELSE Frame(g).errs
             IN compat' = [compat EXCEPT !.defaultDBSite = 0, !.DBSite = 0,
                              !.compatMu = "free", !.cleared = TRUE,
                              !.frame[g] = [Return(@, IF Len(errs) > 0 THEN "close" ELSE "nil")
                                               EXCEPT !.errs = errs, !.closes = @ + 1,
                                                      !.names = CleanupError(errs)]]
          /\ Consume(g)
    /\ UNCHANGED <<process, ncalls, loc, opt, trace, redact>>

\* HealthCheck(ctx): under compatMu.RLock() db := defaultDB; dbSite :=
\* defaultDBSite; `if db == nil { return ErrNotInitialized }`
HealthCheck(g) ==
    /\ pc[g] = "idle"
    /\ Frame(g).fn = "none"
    /\ compat.compatMu = "free"
    /\ LET f == [Frame0 EXCEPT !.fn = "HealthCheck", !.at = "primary",
                               !.db = compat.defaultDB, !.dbSite = compat.defaultDBSite,
                               !.before = Pointers(compat), !.wasCleared = compat.cleared]
       IN compat' = [compat EXCEPT !.frame[g] = IF f.db = 0 THEN Return(f, ErrNotInitialized)
                                                ELSE f]
    /\ UNCHANGED <<process, ncalls, pc, loc, ret, opt, trace, redact>>

\* db.Health(ctx)
HealthCheckPrimary(g, ctx, dbOK, lat) ==
    /\ Frame(g).fn = "HealthCheck" /\ Frame(g).at = "primary"
    /\ Health(g, Frame(g).db, ctx, dbOK, lat)

\* `err != nil { return err }`; `if dbSite != nil`, else return nil
HealthCheckPrimaryDone(g) ==
    /\ Frame(g).fn = "HealthCheck" /\ Frame(g).at = "primary"
    /\ pc[g] = "ret" /\ ret[g].op = "health"
    /\ compat' = [compat EXCEPT !.frame[g] =
                     IF ret[g].err # "nil" THEN Return(@, ret[g].err)
                     ELSE IF @.dbSite # 0 THEN [@ EXCEPT !.at = "site"]
                     ELSE Return(@, "nil")]
    /\ Consume(g)
    /\ UNCHANGED <<process, ncalls, loc, opt, trace, redact>>

\* dbSite.Health(ctx)
HealthCheckSite(g, ctx, dbOK, lat) ==
    /\ Frame(g).fn = "HealthCheck" /\ Frame(g).at = "site"
    /\ Health(g, Frame(g).dbSite, ctx, dbOK, lat)

\* return dbSite.Health(ctx)
HealthCheckSiteDone(g) ==
    /\ Frame(g).fn = "HealthCheck" /\ Frame(g).at = "site"
    /\ pc[g] = "ret" /\ ret[g].op = "health"
    /\ compat' = [compat EXCEPT !.frame[g] = Return(@, ret[g].err)]
    /\ Consume(g)
    /\ UNCHANGED <<process, ncalls, loc, opt, trace, redact>>

\* IsAlive(): under compatMu.RLock() db := defaultDB; `if db == nil { return false }`
IsAlive(g) ==
    /\ pc[g] = "idle"
    /\ Frame(g).fn = "none"
    /\ compat.compatMu = "free"
    /\ LET f == [Frame0 EXCEPT !.fn = "IsAlive", !.at = "primary", !.db = compat.defaultDB,
                               !.before = Pointers(compat), !.wasCleared = compat.cleared]
       IN compat' = [compat EXCEPT !.frame[g] = IF f.db = 0 THEN Return(f, "nil") ELSE f]
    /\ UNCHANGED <<process, ncalls, pc, loc, ret, opt, trace, redact>>

\* db.Health(context.Background())
IsAliveHealth(g, dbOK, lat) ==
    /\ Frame(g).fn = "IsAlive" /\ Frame(g).at = "primary"
    /\ Health(g, Frame(g).db, NoDeadline, dbOK, lat)

\* return db.Health(context.Background()) == nil
IsAliveDone(g) ==
    /\ Frame(g).fn = "IsAlive" /\ Frame(g).at = "primary"
    /\ pc[g] = "ret" /\ ret[g].op = "health"
    /\ compat' = [compat EXCEPT !.frame[g] = [Return(@, "nil") EXCEPT
                                                 !.alive = ret[g].err = "nil"]]
    /\ Consume(g)
    /\ UNCHANGED <<process, ncalls, loc, opt, trace, redact>>

\* the caller takes what the legacy function returned and goes on
CompatResume(g) ==
    /\ Frame(g).at = "ret"
    /\ compat' = [compat EXCEPT !.frame[g] = Frame0]
    /\ UNCHANGED <<process, ncalls, pc, loc, ret, opt, trace, redact>>

\* one caller setting up, replacing and cleaning up the default handles,
\* another probing them
NextCompat ==
    \/ \E site \in BOOLEAN : Setup("g1", site)
    \/ SetupNewPrimary("g1")
    \/ SetupPrimaryDone("g1")
    \/ SetupNewSite("g1")
    \/ SetupSiteDone("g1")
    \/ CreateDatabaseConnection("g1")
    \/ CreateNew("g1")
    \/ CreateDone("g1")
    \/ StdConnect("g1")
    \/ Cleanup("g1")
    \/ CleanupClosePrimary("g1")
    \/ CleanupPrimaryDone("g1")
    \/ CleanupCloseSite("g1")
    \/ CleanupSiteDone("g1")
    \/ CloseSqlDB("g1")
    \/ CloseReturn("g1")
    \/ HealthCheck("g2")
    \/ \E dbOK \in BOOLEAN, lat \in PingTakes : HealthCheckPrimary("g2", NoDeadline, dbOK, lat)
    \/ HealthCheckPrimaryDone("g2")
    \/ \E dbOK \in BOOLEAN, lat \in PingTakes : HealthCheckSite("g2", NoDeadline, dbOK, lat)
    \/ HealthCheckSiteDone("g2")
    \/ IsAlive("g2")
    \/ \E dbOK \in BOOLEAN, lat \in PingTakes : IsAliveHealth("g2", dbOK, lat)
    \/ IsAliveDone("g2")
    \/ \E g \in Goroutines : CompatResume(g)

SpecCompat == Init /\ [][NextCompat]_vars

\* ------------------------------------------------ Health() after Close()
\* one caller connecting through the standard and both managed connectors and
\* closing what it got, another probing the handles
NextLifecycle ==
    \/ \E d \in {"sqlite", PG, MY} :
          NewContext("g1", d, "proj:region:inst", Cfg0, Options0, <<>>)
    \/ PgInstance("g1")
    \/ PgNewDialer("g1")
    \/ PgParse("g1")
    \/ PgOnce("g1")
    \/ PgRegister("g1")
    \/ PgOpen("g1")
    \/ PgPing("g1")
    \/ PgGorm("g1")
    \/ MyInstance("g1")
    \/ MyOnce("g1")
    \/ MyRegister("g1")
    \/ MyStore("g1")
    \/ MyOpen("g1")
    \/ MyDB("g1")
    \/ MyPing("g1")
    \/ StdConnect("g1")
    \/ \E h \in 1..MaxCalls, ctx \in CtxLeft, dbOK \in BOOLEAN, lat \in PingTakes :
          Health("g2", h, ctx, dbOK, lat)
    \/ \E h \in 1..MaxCalls : Close("g1", h)
    \/ CloseDialer("g1")
    \/ CloseSqlDB("g1")
    \/ CloseFnSql("g1")
    \/ CloseFnOnce("g1")
    \/ CloseFnRelease("g1")
    \/ CloseReturn("g1")
    \/ \E g \in Goroutines : Resume(g)

SpecLifecycle == Init /\ [][NextLifecycle]_vars

\* ------------------------------------------- dialer options of a connect
\* caller's Options: every pairing of UseIAM and UsePrivateIP
DialOpts == {[Options0 EXCEPT !.UseIAM = iam, !.UsePrivateIP = private] :
                iam \in BOOLEAN, private \in BOOLEAN}

\* one caller connecting through both managed connectors
NextDialer ==
    \/ \E d \in Managed, opts \in DialOpts :
          NewContext("g1", d, "proj:region:inst", Cfg0, opts, <<>>)
    \/ PgInstance("g1")
    \/ PgNewDialer("g1")
    \/ PgParse("g1")
    \/ PgOnce("g1")
    \/ PgRegister("g1")
    \/ PgOpen("g1")
    \/ PgPing("g1")
    \/ PgGorm("g1")
    \/ MyInstance("g1")
    \/ MyOnce("g1")
    \/ MyRegister("g1")
    \/ MyStore("g1")
    \/ MyOpen("g1")
    \/ MyDB("g1")
    \/ MyPing("g1")
    \/ Resume("g1")

SpecDialer == Init /\ [][NextDialer]_vars

\* ---------------------------------------------------------- fintechLogger
ErrRecordNotFound == "record not found"
\* err arguments of Trace: none, the sentinel, an error wrapping it, another
Errors == {"nil", ErrRecordNotFound, "find: record not found", "connection refused"}

\* texts fc() returns
QuerySelect == <<"S", "E", "L", "E", "C", "T", " ", "1">>
QueryPassword == <<"W", "H", "E", "R", "E", " ", "p", "a", "s", "s", "w", "o", "r", "d", "=", "'", "x", "1", "'">>
QueryPin == <<"S", "E", "T", " ", "P", "I", "N", " ", "=", " ", "1", "2", "3", "4">>
TraceQueries == {QuerySelect, QueryPassword, QueryPin}
SlowThresholds == {0, 200 * Millisecond}

\* newFintechLogger(opts), on the Options NewContext resolved
newFintechLogger(opts) ==
    /\ ~trace.made
    /\ trace' = [trace EXCEPT !.made = TRUE, !.level = opts.LogLevel,
                               !.slowThreshold = opts.SlowThreshold,
                               !.ignoreRecordNotFoundErr = TRUE]
    /\ UNCHANGED <<process, ncalls, pc, loc, ret, opt, redact, compat>>

\* NewFintechLogger(cfg logger.Config)
NewFintechLogger(cfg) ==
    /\ ~trace.made
    /\ trace' = [trace EXCEPT !.made = TRUE, !.level = cfg.LogLevel,
                               !.slowThreshold = IF cfg.SlowThreshold = 0
                                                 THEN defaultSlowThreshold
                                                 ELSE cfg.SlowThreshold,
                               !.ignoreRecordNotFoundErr = cfg.IgnoreRecordNotFoundError]
    /\ UNCHANGED <<process, ncalls, pc, loc, ret, opt, redact, compat>>

\* the logger in use
LoggerOf(t) == [level |-> t.level, slowThreshold |-> t.slowThreshold,
                ignoreRecordNotFoundErr |-> t.ignoreRecordNotFoundErr]

\* LogMode: `nl := *l; nl.level = level; return &nl`: what is returned, and
\* what l is afterwards
LogModeCopy(l, level) == [l EXCEPT !.level = level]
LogModeReceiverInPlaceMutant(l, level) == [l EXCEPT !.level = level]
LogModeReceiver(l, level) == l

\* l.LogMode(level): the copy, on which nothing was traced, becomes the logger
\* in use; recvWas and recv are l before and after the call
LogMode(level) ==
    /\ trace.made
    /\ LET l == LoggerOf(trace)
           nl == LogModeCopy(l, level)
       IN trace' = [Trace0 EXCEPT !.made = TRUE, !.level = nl.level,
                                  !.slowThreshold = nl.slowThreshold,
                                  !.ignoreRecordNotFoundErr = nl.ignoreRecordNotFoundErr,
                                  !.copied = TRUE, !.asked = level, !.recvWas = l,
                                  !.recv = LogModeReceiver(l, level)]
    /\ UNCHANGED <<process, ncalls, pc, loc, ret, opt, redact, compat>>

\* `if l.level <= logger.Silent { return }`
SilentReturnBelowMutant(level) == level < Silent
SilentReturn(level) == level <= Silent

\* `if elapsed > l.slowThreshold`
IsSlowAtThresholdMutant(elapsed, threshold) == elapsed >= threshold
IsSlow(elapsed, threshold) == elapsed > threshold

\* slog.String("sql", redactedSQL)
LoggedSQLRawMutant(sql) == sql
LoggedSQL(sql) == redactSQL(sql)

\* the records one Trace call hands to pkglogger.GetLogger().LogAttrs
TraceRecords(l, sql, rows, err, elapsed) ==
    LET attrs == [duration_ms |-> elapsed \div Millisecond, rows_affected |-> rows,
                  sql |-> LoggedSQL(sql), error |-> "", slow |-> FALSE,
                  threshold_ms |-> 0, level |-> "", msg |-> ""]
    IN IF err # "nil"
       THEN IF err = ErrRecordNotFound /\ l.ignoreRecordNotFoundErr
            THEN <<>>
            ELSE <<[attrs EXCEPT !.error = err, !.level = "ERROR",
                                 !.msg = "[DB] query failed"]>>
       ELSE IF IsSlow(elapsed, l.slowThreshold)
       THEN <<[attrs EXCEPT !.slow = TRUE,
                            !.threshold_ms = l.slowThreshold \div Millisecond,
                            !.level = "WARN", !.msg = "[DB] slow query detected"]>>
       ELSE IF l.level >= Info
       THEN <<[attrs EXCEPT !.level = "INFO", !.msg = "[DB] query executed"]>>
       ELSE <<>>

\* l.Trace(ctx, begin, fc, err): fc returns (sql, rows); elapsed = time.Since(begin).
\* One call per logger value is followed; LogMode gives the next value.
Trace(sql, rows, err, elapsed) ==
    /\ trace.made
    /\ ~trace.traced
    /\ elapsed >= 0
    /\ trace' = IF SilentReturn(trace.level)
                THEN [trace EXCEPT !.traced = TRUE, !.sql = sql, !.err = err,
                                   !.elapsed = elapsed, !.fcCalls = 0, !.records = <<>>]
                ELSE [trace EXCEPT !.traced = TRUE, !.sql = sql, !.err = err,
                                   !.elapsed = elapsed, !.fcCalls = 1,
                                   !.records = TraceRecords(trace, sql, rows, err, elapsed)]
    /\ UNCHANGED <<process, ncalls, pc, loc, ret, opt, redact, compat>>

NextTrace ==
    \/ \E l \in LogLevels, t \in SlowThresholds :
          newFintechLogger(ResolveOptions([Options0 EXCEPT !.LogLevel = l,
                                                           !.SlowThreshold = t], <<>>))
    \/ \E l \in LogLevels, t \in SlowThresholds, i \in BOOLEAN :
          NewFintechLogger([LogLevel |-> l, SlowThreshold |-> t,
                            IgnoreRecordNotFoundError |-> i])
    \/ \E l \in LogLevels : LogMode(l)
    \/ \E sql \in TraceQueries, rows \in {0, 5}, err \in Errors,
          d \in {-Millisecond, 0, Millisecond} :
          Trace(sql, rows, err, trace.slowThreshold + d)

SpecTrace == Init /\ [][NextTrace]_vars

\* ----------------------------------------------------- redactSQL alone
MaxQueryLen == 6   \* pieces of a query text

\* the pieces query texts are made of
Pieces == {sensitivePatterns[1][1], <<"=">>, <<"'">>, <<" ">>, <<"x">>}
Queries == UNION {[1..n -> Pieces] : n \in 0..MaxQueryLen}

InitRedact ==
    /\ InitProcess
    /\ opt = Opt0
    /\ trace = Trace0
    /\ redact \in {[in |-> Chars(q), out |-> <<>>, done |-> FALSE] : q \in Queries}
    /\ compat = Compat0

RedactCall ==
    /\ ~redact.done
    /\ redact' = [redact EXCEPT !.out = redactSQL(redact.in), !.done = TRUE]
    /\ UNCHANGED <<process, ncalls, pc, loc, ret, opt, trace, compat>>

NextRedact == RedactCall

SpecRedact == InitRedact /\ [][NextRedact]_vars

\* Health() on handles of the standard connector and on a handle without
\* database: one goroutine makes and closes handles, the other probes them
NextHealth ==
    \/ NewLiteral(0)
    \/ \E t \in PingTimeouts :
          NewContext("g1", "sqlite", "", Cfg0, [Options0 EXCEPT !.PingTimeout = t], <<>>)
    \/ StdConnect("g1")
    \/ \E h \in 1..MaxCalls, ctx \in CtxLeft, dbOK \in BOOLEAN, lat \in PingTakes :
          Health("g2", h, ctx, dbOK, lat)
    \/ \E h \in 1..MaxCalls : Close("g1", h)
    \/ CloseSqlDB("g1")
    \/ CloseReturn("g1")
    \/ \E g \in Goroutines : Resume(g)

SpecHealth == Init /\ [][NextHealth]_vars

\* ================================================================ claims
Handles == 1..Len(handles)
Closing == {"close_loop", "cl_once", "cl_release"}
FailedOf(log) == SelectSeq(log, LAMBDA e : e.failed)
NamesOf(log) == [k \in 1..Len(FailedOf(log)) |-> FailedOf(log)[k].i]
DialerOf(h) == conns[handles[h].db].dialer
DialersOf(d) == {k \in 1..Len(dialers) : dialers[k].driver = d}

\* C1: once a Close() of a handle has returned, the handle's cleanup list is
\* empty, and every Close() of it that begins later invokes no cleanup closure
\* and returns nil, whatever the first Close() returned; a Close() none of whose
\* closures failed returns nil.
C1_CloseIdempotent ==
    /\ \A h \in Handles : handles[h].returned > 0 => handles[h].cleanups = <<>>
    /\ \A g \in Goroutines :
         /\ (pc[g] \in Closing /\ loc[g].later) => (loc[g].snap = <<>> /\ loc[g].log = <<>>)
         /\ (ret[g].op = "close" /\ ret[g].later) => (ret[g].log = <<>> /\ ret[g].err = "nil")
         /\ (ret[g].op = "close" /\ FailedOf(ret[g].log) = <<>>) => ret[g].err = "nil"

\* a second Close() of a handle made by NewContext has returned
C1_Witness ==
    \E g \in Goroutines :
        /\ ret[g].op = "close" /\ ret[g].later
        /\ handles[ret[g].h].driver \in Managed
        /\ handles[ret[g].h].returned = 2

\* C2: a Close() that has returned invoked every closure of the list, in
\* registration order, also after a closure failed; it returned an error exactly
\* when some closure failed, and that error names every failed closure.
C2_CloseCollectsAll ==
    \A g \in Goroutines :
        ret[g].op = "close" =>
            /\ Len(ret[g].log) = Len(ret[g].snap)
            /\ \A k \in 1..Len(ret[g].log) : ret[g].log[k].i = k
            /\ (ret[g].err # "nil") <=> (FailedOf(ret[g].log) # <<>>)
            /\ ret[g].names = NamesOf(ret[g].log)

\* a Close() whose first closure failed went on to the second, which failed too
C2_Witness ==
    \E g \in Goroutines :
        /\ ret[g].op = "close"
        /\ Len(ret[g].snap) = 2
        /\ ret[g].log[1].failed /\ ret[g].log[2].failed
        /\ ret[g].names = <<1, 2>>

\* C3: for each managed driver, at most one tunnel dialer is ever created in
\* the process: the first connect call creates it and later calls reuse it.
C3_DialerCreatedOnce ==
    \A d \in Managed : Cardinality(DialersOf(d)) <= 1

\* C4: each managed driver name is registered at most once, and no goroutine is
\* past the once-guard, opening or holding a connection under that name, unless
\* the single registration attempt has completed.
C4_RegisteredOnceBeforeOpen ==
    /\ \A d \in Managed : registry[d].attempts <= 1
    /\ \A g \in Goroutines :
         /\ pc[g] \in {"pg_open", "pg_ping", "pg_gorm"} => registry[PG].attempts = 1
         /\ pc[g] \in {"my_open", "my_db", "my_ping"} => registry[MY].attempts = 1
    /\ \A c \in 1..Len(conns) :
         conns[c].driver \in Managed => registry[conns[c].driver].attempts = 1

\* two goroutines made the first connect calls of a driver together: one runs
\* the registration while the other waits at the guard
C4_Witness ==
    \E g1, g2 \in Goroutines :
        \/ pc[g1] = "my_register" /\ pc[g2] = "my_once"
        \/ pc[g1] = "pg_register" /\ pc[g2] = "pg_once"

\* C5: every managed handle that was returned and on which Close() has not been
\* called dials through a dialer nobody has released.
C5_OpenHandleDialerLive ==
    \A h \in Handles :
        (handles[h].driver \in Managed /\ handles[h].began = 0) =>
            dialers[DialerOf(h)].closers = <<>>

\* C6: the release of the dialer shared by the managed-MySQL handles runs at
\* most once, however the handles' Close() calls interleave.
C6_MySQLReleasedOnce ==
    \A k \in DialersOf(MY) : Len(dialers[k].closers) <= 1

\* Close() calls of two different MySQL handles overlap at the release guard
C6_Witness ==
    \E g1, g2 \in Goroutines :
        /\ pc[g1] = "cl_release" /\ pc[g2] = "cl_once"
        /\ loc[g1].h # loc[g2].h
        /\ handles[loc[g1].h].driver = MY /\ handles[loc[g2].h].driver = MY

\* C7: a managed connect call that ended at its failed ping closed the pooled
\* connection it had opened, returned no handle, and did not close the dialer.
C7_PingFailureKeepsDialer ==
    \A g \in Goroutines :
        (ret[g].op = "new" /\ ret[g].driver \in Managed /\ ret[g].err = "ping") =>
            /\ conns[ret[g].conn].closed
            /\ ret[g].h = 0
            /\ \A h \in Handles : handles[h].db # ret[g].conn
            /\ \A k \in 1..Len(dialers[ret[g].dialer].closers) :
                 dialers[ret[g].dialer].closers[k] # "connect"

\* C8: once Close() has returned on a managed handle, its pooled connection is
\* closed and its dialer has been released.
C8_ClosedHandleReleased ==
    \A h \in Handles :
        (handles[h].driver \in Managed /\ handles[h].returned > 0) =>
            /\ conns[handles[h].db].closed
            /\ dialers[DialerOf(h)].closers # <<>>

\* C9: the step a managed connect call with an empty instance identifier takes
\* is its return of an error and no handle, and changes no process-wide state:
\* no dialer, no registration, no once-guard, no connection.
C9_EmptyInstanceNoEffect ==
    [][\A g \in Goroutines :
         (loc[g].driver \in Managed /\ loc[g].instance = "" /\ pc'[g] # pc[g]) =>
             /\ pc'[g] = "ret"
             /\ ret'[g].op = "new" /\ ret'[g].err = "instance" /\ ret'[g].h = 0
             /\ UNCHANGED process]_vars

\* a call with an empty identifier has returned its error, and the first
\* registration is being run by a call that came with a valid one
C9_Witness ==
    \E g1, g2 \in Goroutines :
        /\ ret[g1].op = "new" /\ ret[g1].err = "instance" /\ ret[g1].driver = MY
        /\ pc[g2] = "my_register" /\ loc[g2].instance # ""
        /\ registry[MY].attempts = 0

\* C10: when the registration of the managed-MySQL driver has failed, it was
\* attempted once and is not attempted again, no managed-MySQL handle exists,
\* and every managed-MySQL connect call returns an error and no handle.
MyRegistrationFailed == registry[MY].attempts >= 1 /\ ~registry[MY].ok

C10_FailedRegistrationPermanent ==
    MyRegistrationFailed =>
        /\ registry[MY].attempts = 1
        /\ \A g \in Goroutines : pc[g] # "my_register"
        /\ \A h \in Handles : handles[h].driver # MY
        /\ \A g \in Goroutines :
             (ret[g].op = "new" /\ ret[g].driver = MY) => (ret[g].err # "nil" /\ ret[g].h = 0)

\* the call that ran the failed registration and a later call have both
\* returned their open error
C10_Witness ==
    /\ MyRegistrationFailed
    /\ \A g \in Goroutines :
         ret[g].op = "new" /\ ret[g].driver = MY /\ ret[g].err = "open"

\* C11: a NewContext call with a driver name that is none of mysql, postgres,
\* sqlite, sqlserver, cloudsql-postgres, cloudsql-mysql goes to the standard
\* connector and returns from it with the "unsupported driver" error and no
\* handle; buildDSN gives the empty DSN and that error for the name; and no
\* step of the call opens a connection, creates a dialer, registers a driver
\* or makes a handle.
Recognized == {"mysql", "postgres", "sqlite", "sqlserver", PG, MY}

C11_UnsupportedDriver ==
    [][\A g \in Goroutines :
         /\ (pc[g] = "idle" /\ pc'[g] \notin {"idle", "close_loop"}
               /\ loc'[g].driver \notin Recognized)
              => (pc'[g] = "std_connect" /\ UNCHANGED process)
         /\ (pc[g] \notin {"idle", "ret"} /\ pc'[g] # pc[g]
               /\ loc[g].driver \notin Recognized /\ loc[g].h = 0)
              => /\ pc'[g] = "ret"
                 /\ ret'[g].op = "new" /\ ret'[g].driver = loc[g].driver
                 /\ ret'[g].err = "unsupported" /\ ret'[g].h = 0
                 /\ ret'[g].conn = 0 /\ ret'[g].dialer = 0
                 /\ buildDSN(loc[g].driver) = [dsn |-> "", err |-> "unsupported driver"]
                 /\ UNCHANGED process]_vars

\* NewContext with driver "oracle" has returned
C11_Witness ==
    \E g \in Goroutines :
        /\ pc[g] = "ret" /\ ret[g].op = "new" /\ ret[g].driver = "oracle"
        /\ ret[g].err = "unsupported" /\ ret[g].h = 0

\* C12: whenever a connect call has returned an error, it has returned no
\* handle, and the pooled connection it opened, if it opened one, is closed.
C12_FailedConnectClosesPool ==
    \A g \in Goroutines :
        (pc[g] = "ret" /\ ret[g].op = "new" /\ ret[g].err # "nil")
            => /\ ret[g].h = 0
               /\ ret[g].conn # 0 => conns[ret[g].conn].closed

\* C13 as stated: Health() of a handle with a database always pings once and
\* returns nil or an error tagged "ping".
HealthReturns(g) == pc[g] = "idle" /\ pc'[g] = "ret" /\ ret'[g].op = "health"

C13_HealthAlwaysPings ==
    [][\A g \in Goroutines :
         (HealthReturns(g) /\ handles[ret'[g].h].db # 0)
            => (ret'[g].pings = 1 /\ ret'[g].err \in {"nil", "ping"})]_vars

\* C13: Health() returns "database not initialized", without pinging, when the
\* handle has no database; when d.db.DB() fails it returns an error tagged
\* "get sql.DB", without pinging; otherwise it pings exactly once and returns
\* nil when the pool is open and answers before both the time left on ctx and
\* the handle's PingTimeout, and an error tagged "ping" when not.  Health
\* changes no handle, connection, dialer or registration.
C13_Health ==
    [][\A g \in Goroutines :
         HealthReturns(g) =>
            LET d == handles[ret'[g].h]
                r == ret'[g]
            IN /\ d.db = 0 => (r.err = "database not initialized" /\ r.pings = 0)
               /\ d.db # 0 =>
                    \/ r.err = "get sql.DB" /\ r.pings = 0
                    \/ /\ r.pings = 1
                       /\ r.err = IF /\ ~conns[d.db].closed
                                     /\ r.lat < r.ctx
                                     /\ r.lat < d.opts.PingTimeout
                                  THEN "nil" ELSE "ping"
               /\ d.opts.PingTimeout > 0
               /\ UNCHANGED process]_vars

\* Health() on an open handle with the default PingTimeout and a ctx without
\* deadline has returned a "ping" error for a server that takes 6 s
C13_Witness ==
    \E g \in Goroutines :
        /\ pc[g] = "ret" /\ ret[g].op = "health" /\ ret[g].err = "ping"
        /\ ret[g].pings = 1 /\ ret[g].ctx = NoDeadline /\ ret[g].lat = 6 * Second
        /\ handles[ret[g].h].db # 0 /\ ~conns[handles[ret[g].h].db].closed
        /\ handles[ret[g].h].opts.PingTimeout = defaultPingTimeout

\* C14: after applyDefaults, MaxOpenConns, MaxIdleConns, ConnMaxLife,
\* ConnMaxIdle, SlowThreshold and PingTimeout each equal the input when it was
\* > 0 and else 30, 10, 30 min, 10 min, 500 ms, 5 s; LogLevel equals the input
\* when it is in Silent..Info and else Warn; UseIAM and UsePrivateIP are the
\* input's; so every numeric field is > 0.
OrDefault(v, dflt) == IF v > 0 THEN v ELSE dflt

C14_ApplyDefaults ==
    Len(opt.outs) >= 1 =>
        LET i == opt.in
            o == opt.outs[1]
        IN /\ o.MaxOpenConns = OrDefault(i.MaxOpenConns, 30)
           /\ o.MaxIdleConns = OrDefault(i.MaxIdleConns, 10)
           /\ o.ConnMaxLife = OrDefault(i.ConnMaxLife, 30 * Minute)
           /\ o.ConnMaxIdle = OrDefault(i.ConnMaxIdle, 10 * Minute)
           /\ o.SlowThreshold = OrDefault(i.SlowThreshold, 500 * Millisecond)
           /\ o.PingTimeout = OrDefault(i.PingTimeout, 5 * Second)
           /\ o.LogLevel = IF i.LogLevel \in Silent..Info THEN i.LogLevel ELSE Warn
           /\ o.UseIAM = i.UseIAM /\ o.UsePrivateIP = i.UsePrivateIP
           /\ \A f \in {"MaxOpenConns", "MaxIdleConns", "ConnMaxLife", "ConnMaxIdle",
                         "SlowThreshold", "PingTimeout"} : o[f] > 0

\* applyDefaults has run on an Options with a zero, a negative and a positive
\* numeric field and a LogLevel above Info
C14_Witness ==
    /\ Len(opt.outs) >= 1
    /\ opt.in.MaxOpenConns = 0 /\ opt.in.MaxIdleConns = -1 /\ opt.in.ConnMaxLife = 7
    /\ opt.in.LogLevel = 5
    /\ opt.outs[1].MaxOpenConns = 30 /\ opt.outs[1].MaxIdleConns = 10
    /\ opt.outs[1].ConnMaxLife = 7 /\ opt.outs[1].LogLevel = Warn

\* C15: applyDefaults run on the result of applyDefaults changes nothing.
C15_ApplyDefaultsIdempotent ==
    Len(opt.outs) >= 2 => opt.outs[2] = opt.outs[1]

\* applyDefaults has run twice on an Options whose first run changed every
\* numeric field and the LogLevel
C15_Witness ==
    /\ Len(opt.outs) >= 2
    /\ \A f \in {"MaxOpenConns", "MaxIdleConns", "ConnMaxLife", "ConnMaxIdle",
                  "SlowThreshold", "PingTimeout", "LogLevel"} :
           opt.in[f] <= 0 /\ opt.outs[1][f] # opt.in[f]

\* C16: the pool of a connect call that got as far as its ping was given, for
\* max-open, max-idle and max-lifetime, the cfg value when that is > 0 and
\* else the value of the Options made by applying the overrides in argument
\* order to the caller's Options and defaulting; max-idle-time is always the
\* Options value; the ping ran on the pool so configured; this for the
\* standard and both managed connectors.  A pool whose call ended before the
\* ping got no setting.
PoolFor(cfg, given, override) ==
    LET o == applyDefaults(ApplyOverrides(given, override))
    IN [maxOpen |-> IF cfg.MaxOpenConns > 0 THEN cfg.MaxOpenConns ELSE o.MaxOpenConns,
        maxIdle |-> IF cfg.MaxIdleConns > 0 THEN cfg.MaxIdleConns ELSE o.MaxIdleConns,
        maxLife |-> IF cfg.ConnMaxLifetimeMinutes > 0
                    THEN cfg.ConnMaxLifetimeMinutes * Minute ELSE o.ConnMaxLife,
        maxIdleTime |-> o.ConnMaxIdle]

C17_TraceOrder ==
    (trace.traced /\ trace.level > Silent) =>
        LET rs == trace.records
        IN /\ Len(rs) <= 1
           /\ IF trace.err = ErrRecordNotFound /\ trace.ignoreRecordNotFoundErr
              THEN rs = <<>>
              ELSE IF trace.err # "nil"
              THEN /\ Len(rs) = 1
                   /\ rs[1].level = "ERROR" /\ rs[1].error = trace.err /\ ~rs[1].slow
              ELSE IF trace.elapsed > trace.slowThreshold
              THEN /\ Len(rs) = 1
                   /\ rs[1].level = "WARN" /\ rs[1].slow
                   /\ rs[1].threshold_ms = trace.slowThreshold
              ELSE IF trace.level >= Info
              THEN Len(rs) = 1 /\ rs[1].level = "INFO" /\ ~rs[1].slow
              ELSE rs = <<>>

\* a Trace call for a query that failed and was slow has logged one ERROR record
C17_Witness ==
    /\ trace.traced /\ trace.level > Silent
    /\ trace.err = "connection refused" /\ trace.elapsed > trace.slowThreshold
    /\ Len(trace.records) = 1 /\ trace.records[1].level = "ERROR"

\* C18: a Trace call invokes fc exactly once when the logger's level is above
\* Silent; at Silent (or below) it does not invoke fc and hands over no record.
C18_FcOnce ==
    trace.traced =>
        /\ trace.level > Silent => trace.fcCalls = 1
        /\ trace.level <= Silent => (trace.fcCalls = 0 /\ trace.records = <<>>)

\* a Trace call at level Silent for a failed query has returned
C18_Witness ==
    /\ trace.traced /\ trace.level = Silent /\ trace.err = "connection refused"
    /\ trace.fcCalls = 0 /\ trace.records = <<>>

\* C19: the sql field of every record a Trace call hands over is redactSQL of
\* the text fc returned: for WHERE password='x1' it is WHERE password=[REDACTED],
\* for SET PIN = 1234 it is SET PIN=[REDACTED].
C19_TraceRedacts ==
    \A i \in 1..Len(trace.records) :
        /\ trace.records[i].sql = redactSQL(trace.sql)
        /\ trace.sql = QueryPassword =>
              trace.records[i].sql = SubSeq(QueryPassword, 1, 14) \o <<"=", "[REDACTED]">>
        /\ trace.sql = QueryPin =>
              trace.records[i].sql = SubSeq(QueryPin, 1, 7) \o <<"=", "[REDACTED]">>

\* a Trace call for the slow query WHERE password='x1' has handed over a WARN
\* record whose sql is not the text fc returned
C19_Witness ==
    /\ trace.traced /\ trace.sql = QueryPassword
    /\ Len(trace.records) = 1 /\ trace.records[1].level = "WARN"
    /\ trace.records[1].sql # trace.sql

\* C21: the logger LogMode(level) returns has the given level and the
\* receiver's slowThreshold and ignoreRecordNotFoundErr, and the receiver is
\* after the call what it was before.
C21_LogModeCopies ==
    trace.copied =>
        /\ trace.level = trace.asked
        /\ trace.slowThreshold = trace.recvWas.slowThreshold
        /\ trace.ignoreRecordNotFoundErr = trace.recvWas.ignoreRecordNotFoundErr
        /\ trace.recv = trace.recvWas

\* LogMode(Warn) on a logger at Info, as TestFintechLogger_LogMode does
C21_Witness ==
    /\ trace.copied /\ trace.asked = Warn /\ trace.level = Warn
    /\ trace.recvWas.level = Info /\ trace.recv.level = Info

\* the fields of a log record whose value is the configured password
PasswordFields(rec) ==
    {f \in DOMAIN rec \ {"iam_auth"} : rec[f] = Password}

\* C23: a connect call that has returned a handle emitted the "connected"
\* record exactly once, one that has returned an error never emitted it, and
\* no emitted record holds the configured password.
C23_ConnectedLoggedOnce ==
    \A g \in Goroutines :
        (pc[g] = "ret" /\ ret[g].op = "new") =>
            /\ ret[g].err = "nil" => Len(ret[g].logged) = 1
            /\ ret[g].err # "nil" => ret[g].logged = <<>>
            /\ \A k \in 1..Len(ret[g].logged) : PasswordFields(ret[g].logged[k]) = {}

\* the closures of its list a Close() call in progress has invoked so far
Invoked(g) == {loc[g].log[k].i : k \in 1..Len(loc[g].log)}

\* C25: two Close() calls in progress at once on one handle have invoked no
\* cleanup closure twice between them.
C25_ConcurrentCloseOnce ==
    \A g1, g2 \in Goroutines :
        (g1 # g2 /\ pc[g1] \in Closing /\ pc[g2] \in Closing /\ loc[g1].h = loc[g2].h)
            => Invoked(g1) \cap Invoked(g2) = {}

\* C26: a managed connect call that has returned a handle dials through a
\* dialer built from that call's UseIAM and UsePrivateIP; its DSN leaves the
\* password out exactly when that dialer authenticates by token, and its
\* "connected" record reports that dialer's routing and auth mode.
C26_DialerMatchesCall ==
    \A g \in Goroutines :
        (pc[g] = "ret" /\ ret[g].op = "new" /\ ret[g].driver \in Managed /\ ret[g].err = "nil") =>
            LET used == dialers[conns[ret[g].conn].dialer].options
                opts == ResolveOptions(ret[g].given, ret[g].override)
                rec  == ret[g].logged[Len(ret[g].logged)]
            IN  /\ used = buildDialerOptions(opts)
                /\ (conns[ret[g].conn].password = "") = used.iam
                /\ rec.iam_auth = used.iam
                /\ (rec.connection_type = "private_ip") = used.private

\* C27: a Health() call made on a handle after a Close() of that handle has
\* returned returns a non-nil error.
C27_ClosedNeverHealthy ==
    [][\A g \in Goroutines :
         (HealthReturns(g) /\ handles[ret'[g].h].returned > 0) => ret'[g].err # "nil"]_vars

\* a legacy call of goroutine g has returned
Returned(g, fn) == Frame(g).fn = fn /\ Frame(g).at = "ret"

\* C22: the error Cleanup() returns names every Close() failure it collected.
C22_CleanupNamesEveryFailure ==
    \A g \in Goroutines :
        Returned(g, "Cleanup") => Frame(g).names = Frame(g).errs

\* C24: after Cleanup() has returned and until a Setup or
\* CreateDatabaseConnection succeeds, defaultDB, defaultDBSite, DB and DBSite
\* are nil, a HealthCheck begun then returns ErrNotInitialized, an IsAlive
\* begun then returns false, and a Cleanup() begun then closes nothing and
\* returns nil.
C24_CleanupClears ==
    /\ compat.cleared => Pointers(compat) = Pointers0
    /\ \A g \in Goroutines :
         /\ (Returned(g, "HealthCheck") /\ Frame(g).wasCleared)
                => Frame(g).err = ErrNotInitialized
         /\ (Returned(g, "IsAlive") /\ Frame(g).wasCleared) => ~Frame(g).alive
         /\ (Returned(g, "Cleanup") /\ Frame(g).wasCleared)
                => (Frame(g).closes = 0 /\ Frame(g).err = "nil")

\* C29: when Cleanup() returns, Close() has returned on every handle New gave
\* to Setup or CreateDatabaseConnection.
C29_CleanupClosesEveryHandle ==
    \A g \in Goroutines :
        Returned(g, "Cleanup") => \A h \in compat.created : handles[h].returned > 0

\* C30: when Setup() has returned an error, defaultDB, defaultDBSite, DB and
\* DBSite are what they were when it was called.
C30_FailedSetupChangesNothing ==
    \A g \in Goroutines :
        (Returned(g, "Setup") /\ Frame(g).err # "nil")
            => Pointers(compat) = Frame(g).before

\* C28: a record Trace hands over has a severity the logger's level admits:
\* WARN only at level >= Warn, ERROR only at level >= Error, INFO only at
\* level >= Info.
C28_TraceLevelGated ==
    \A i \in 1..Len(trace.records) :
        /\ trace.records[i].level = "ERROR" => trace.level >= Error
        /\ trace.records[i].level = "WARN" => trace.level >= Warn
        /\ trace.records[i].level = "INFO" => trace.level >= Info

\* C20: of a query that is a sensitive keyword, "=", and a quoted literal,
\* no character of the literal is in redactSQL's output; and redactSQL
\* returns a query without sensitive keyword unchanged.
IsKeywordEqQuoted(s) ==
    LET k == Len(sensitivePatterns[1][1])
    IN /\ Len(s) >= k + 4
       /\ SubSeq(s, 1, k) = sensitivePatterns[1][1]
       /\ s[k + 1] = "=" /\ s[k + 2] = "'" /\ s[Len(s)] = "'"
       /\ \A i \in (k + 3)..(Len(s) - 1) : s[i] \in {"x", " "}
       /\ \E i \in (k + 3)..(Len(s) - 1) : s[i] = "x"

HasKeyword(s) ==
    \E p \in 1..Len(s), g \in 1..Len(sensitivePatterns) :
        \E a \in 1..Len(sensitivePatterns[g]) : KeywordAt(s, p, sensitivePatterns[g][a])

C20_RedactHidesLiteral ==
    redact.done =>
        /\ IsKeywordEqQuoted(redact.in) =>
              \A i \in 1..Len(redact.out) : redact.out[i] # "x"
        /\ ~HasKeyword(redact.in) => redact.out = redact.in

====
